---- MODULE Spec2Model ----
(***************************************************************************)
(* A model of the Apple Blocks annotation plugin (src/blocks.py and the    *)
(* helpers of src/shinobi.py it uses).                                     *)
(*                                                                         *)
(* Two specifications share the definitions of this module:                *)
(*   SpecLayout  the layout decoder append_layout_fields applied to one    *)
(*               call (layout value, extended flag, memory image);         *)
(*   Spec        the processing of one block candidate, global or stack,   *)
(*               one action per step of annotate_global_block_literal /    *)
(*               annotate_stack_block_literal.                             *)
(*                                                                         *)
(* Representation choices:                                                 *)
(*   - a flags word is the set of the bit positions that are set, so       *)
(*     (flags & BLOCK_X) != 0 reads  BLOCK_X \in flags ;                   *)
(*   - a Python attribute or local that was never assigned holds Unset,    *)
(*     and reading it raises (AttributeError / UnboundLocalError);         *)
(*   - a name built by an f-string is the pair of its literal prefix and   *)
(*     the hexadecimal digits that format(n, "x") yields;                  *)
(*   - the Binary Ninja objects (BinaryReader, StructureBuilder, the type  *)
(*     registry of the view) are modelled by what the plugin uses of them. *)
(***************************************************************************)
EXTENDS Integers, Sequences, FiniteSets, TLC

\* ------------------------------------------------------------------------
\* Bounds of the model

\* Longest bytecode memory image drawn in SpecLayout.
MaxStream == 3

\* ------------------------------------------------------------------------
\* Program constants

\* Bit positions of the BLOCK_LITERAL_FLAGS the plugin tests.
BLOCK_HAS_EXTENDED_LAYOUT == 31
BLOCK_HAS_SIGNATURE == 30
BLOCK_IS_GLOBAL == 28
BLOCK_HAS_COPY_DISPOSE == 25

\* BLOCK_BYREF_FLAGS: the bit position of the copy-dispose flag, and the
\* layout kinds as the sets of bit positions set in them (the mask is
\* 7 << 28, the kinds are 1 << 28 to 5 << 28).
BLOCK_BYREF_HAS_COPY_DISPOSE == 25
BLOCK_BYREF_LAYOUT_MASK == {28, 29, 30}
BLOCK_BYREF_LAYOUT_EXTENDED == {28}
BLOCK_BYREF_LAYOUT_NON_OBJECT == {29}
BLOCK_BYREF_LAYOUT_STRONG == {28, 29}
BLOCK_BYREF_LAYOUT_WEAK == {30}
BLOCK_BYREF_LAYOUT_UNRETAINED == {28, 30}

BLOCK_LAYOUT_ESCAPE == 0
BLOCK_LAYOUT_NON_OBJECT_BYTES == 1
BLOCK_LAYOUT_NON_OBJECT_WORDS == 2
BLOCK_LAYOUT_STRONG == 3
BLOCK_LAYOUT_BYREF == 4
BLOCK_LAYOUT_WEAK == 5
BLOCK_LAYOUT_UNRETAINED == 6

\* 0x1000: layout values below it are the compact encoding.
CompactLimit == 4096

\* 0x20: the size of the five header members of a block literal.
HeaderSize == 32

\* Width of a pointer on the two architectures is_valid accepts.
PointerWidth == 8

\* ------------------------------------------------------------------------
\* Python values

\* An attribute or local variable that was never assigned.
Unset == 0 - 1
\* Python's None.
None == 0 - 2

\* ------------------------------------------------------------------------
\* Names and types

RECURSIVE Hex(_)
\* format(n, "x"): the hexadecimal digits of n, most significant first.
Hex(n) == IF n < 16 THEN <<n>> ELSE Hex(n \div 16) \o <<n % 16>>

\* f"{prefix}{n:x}"
HexName(prefix, n) == [prefix |-> prefix, suffix |-> Hex(n)]
\* A name that is a plain string literal.
PlainName(s) == [prefix |-> s, suffix |-> <<>>]

NoName == PlainName("")

\* Types as the plugin obtains them from the view.
TypeClass == [kind |-> "Class", to |-> NoName, width |-> PointerWidth, align |-> PointerWidth]
TypeId == [kind |-> "id", to |-> NoName, width |-> PointerWidth, align |-> PointerWidth]
TypeUint64 == [kind |-> "uint64_t", to |-> NoName, width |-> 8, align |-> 8]
TypeUint32 == [kind |-> "uint32_t", to |-> NoName, width |-> 4, align |-> 4]
TypeVolatileUint32 == [kind |-> "volatile uint32_t", to |-> NoName, width |-> 4, align |-> 4]
TypeVolatileInt32 == [kind |-> "volatile int32_t", to |-> NoName, width |-> 4, align |-> 4]
TypeUint8Array(n) == [kind |-> "uint8_t[]", to |-> NoName, width |-> n, align |-> 1]
TypeNamed(s) == [kind |-> s, to |-> NoName, width |-> PointerWidth, align |-> PointerWidth]
\* binja.Type.pointer(arch, <the struct named n>)
TypePointer(n) == [kind |-> "pointer", to |-> n, width |-> PointerWidth, align |-> PointerWidth]

\* ------------------------------------------------------------------------
\* binja.StructureBuilder

StructureBuilderCreate(packed) == [packed |-> packed, members |-> <<>>, width |-> 0]

AlignUp(n, a) == ((n + a - 1) \div a) * a

\* struct.append(type, name): the member goes to the end of the structure,
\* at the current width when the structure is packed and at the next
\* multiple of the type's alignment otherwise.
StructAppend(struct, type, name) ==
    LET offset == IF struct.packed THEN struct.width
                  ELSE AlignUp(struct.width, type.align)
    IN [struct EXCEPT
          !.members = Append(@, [type |-> type, name |-> name, offset |-> offset]),
          !.width = offset + type.width]

\* struct.replace(index, type, name), index counted from 0.
StructReplace(struct, index, type, name) ==
    [struct EXCEPT !.members[index + 1].type = type,
                   !.members[index + 1].name = name]

\* ------------------------------------------------------------------------
\* binja.BinaryReader over the bytecode memory image

\* The image mem (a sequence of bytes) is mapped at address CompactLimit;
\* every other address is unmapped.
MemBase == CompactLimit

Mapped(mem, addr) == addr >= MemBase /\ addr < MemBase + Len(mem)

\* br.read8(): the byte at addr, or None where no byte is mapped.
Read8(mem, addr) == IF Mapped(mem, addr) THEN mem[addr - MemBase + 1] ELSE None

\* ------------------------------------------------------------------------
\* append_layout_fields

RECURSIVE AppendPointers(_, _, _, _)
\* for _ in range(n): [byref_indexes.append(len(struct.members));]
\*                    struct.append(id, f"{prefix}{struct.width:x}")
\* d is the decoder's state; the index is recorded for the byref prefix
\* only, and only when the caller passed a byref_indexes list.
AppendPointers(d, n, prefix, record_index) ==
    IF n = 0 THEN d
    ELSE AppendPointers(
           [d EXCEPT
              !.byref_indexes = IF record_index /\ d.byref_given
                                THEN Append(@, Len(d.struct.members)) ELSE @,
              !.struct = StructAppend(@, TypeId, HexName(prefix, d.struct.width))],
           n - 1, prefix, record_index)

RECURSIVE AppendWords(_, _)
\* for _ in range(oparg): struct.append(uint64_t, f"non_object_{struct.width:x}")
AppendWords(d, n) ==
    IF n = 0 THEN d
    ELSE AppendWords(
           [d EXCEPT !.struct = StructAppend(@, TypeUint64,
                                             HexName("non_object_", d.struct.width))],
           n - 1)

\* Mutant: the weak pointers are appended before the byref pointers.
AppendCompact_WeakBeforeByref(d, layout) ==
    LET n_strong_ptrs == (layout \div 256) % 16
        n_byref_ptrs == (layout \div 16) % 16
        n_weak_ptrs == layout % 16
        d1 == AppendPointers(d, n_strong_ptrs, "strong_ptr_", FALSE)
        d2 == AppendPointers(d1, n_weak_ptrs, "weak_ptr_", FALSE)
    IN AppendPointers(d2, n_byref_ptrs, "byref_ptr_", TRUE)

\* Mutant: the weak count is masked with 0x7 instead of 0xf.
AppendCompact_NarrowWeakMask(d, layout) ==
    LET n_strong_ptrs == (layout \div 256) % 16
        n_byref_ptrs == (layout \div 16) % 16
        n_weak_ptrs == layout % 8
        d1 == AppendPointers(d, n_strong_ptrs, "strong_ptr_", FALSE)
        d2 == AppendPointers(d1, n_byref_ptrs, "byref_ptr_", TRUE)
    IN AppendPointers(d2, n_weak_ptrs, "weak_ptr_", FALSE)

\* The compact encoding: three 4-bit counts, strong, byref, weak.
AppendCompact(d, layout) ==
    LET n_strong_ptrs == (layout \div 256) % 16
        n_byref_ptrs == (layout \div 16) % 16
        n_weak_ptrs == layout % 16
        d1 == AppendPointers(d, n_strong_ptrs, "strong_ptr_", FALSE)
        d2 == AppendPointers(d1, n_byref_ptrs, "byref_ptr_", TRUE)
    IN AppendPointers(d2, n_weak_ptrs, "weak_ptr_", FALSE)

\* Mutant: the index of a byref pointer is not recorded.
AppendOp_ByrefNotRecorded(d, opcode, oparg) ==
    IF opcode = BLOCK_LAYOUT_NON_OBJECT_BYTES
    THEN [d EXCEPT !.struct = StructAppend(@, TypeUint8Array(oparg),
                                           HexName("non_object_", d.struct.width))]
    ELSE IF opcode = BLOCK_LAYOUT_NON_OBJECT_WORDS THEN AppendWords(d, oparg)
    ELSE IF opcode = BLOCK_LAYOUT_STRONG
    THEN AppendPointers(d, oparg, "strong_ptr_", FALSE)
    ELSE IF opcode = BLOCK_LAYOUT_BYREF
    THEN AppendPointers(d, oparg, "byref_ptr_", FALSE)
    ELSE IF opcode = BLOCK_LAYOUT_WEAK
    THEN AppendPointers(d, oparg, "weak_ptr_", FALSE)
    ELSE AppendPointers(d, oparg, "unretained_ptr_", FALSE)

\* Mutant: the NonObjectBytes operand is taken as a count of words.
AppendOp_BytesAsWords(d, opcode, oparg) ==
    IF opcode \in {BLOCK_LAYOUT_NON_OBJECT_BYTES, BLOCK_LAYOUT_NON_OBJECT_WORDS}
    THEN AppendWords(d, oparg)
    ELSE IF opcode = BLOCK_LAYOUT_STRONG
    THEN AppendPointers(d, oparg, "strong_ptr_", FALSE)
    ELSE IF opcode = BLOCK_LAYOUT_BYREF
    THEN AppendPointers(d, oparg, "byref_ptr_", TRUE)
    ELSE IF opcode = BLOCK_LAYOUT_WEAK
    THEN AppendPointers(d, oparg, "weak_ptr_", FALSE)
    ELSE AppendPointers(d, oparg, "unretained_ptr_", FALSE)

\* What one byte of the bytecode with an opcode in 1..6 appends.
AppendOp(d, opcode, oparg) ==
    IF opcode = BLOCK_LAYOUT_NON_OBJECT_BYTES
    THEN [d EXCEPT !.struct = StructAppend(@, TypeUint8Array(oparg),
                                           HexName("non_object_", d.struct.width))]
    ELSE IF opcode = BLOCK_LAYOUT_NON_OBJECT_WORDS THEN AppendWords(d, oparg)
    ELSE IF opcode = BLOCK_LAYOUT_STRONG
    THEN AppendPointers(d, oparg, "strong_ptr_", FALSE)
    ELSE IF opcode = BLOCK_LAYOUT_BYREF
    THEN AppendPointers(d, oparg, "byref_ptr_", TRUE)
    ELSE IF opcode = BLOCK_LAYOUT_WEAK
    THEN AppendPointers(d, oparg, "weak_ptr_", FALSE)
    ELSE AppendPointers(d, oparg, "unretained_ptr_", FALSE)

\* Mutant: every opcode but ESCAPE is decoded.
OpcodeContinues_AnyButEscape(opcode) ==
    opcode # BLOCK_LAYOUT_ESCAPE

\* Whether the while loop goes on after a byte with this opcode.
OpcodeContinues(opcode) ==
    opcode \in BLOCK_LAYOUT_NON_OBJECT_BYTES .. BLOCK_LAYOUT_UNRETAINED

RECURSIVE BytecodeLoop(_, _)
\* The while True loop over the bytecode; d.offset is br.offset.  A read of
\* an unmapped address yields None, and op & 0xf0 then raises TypeError.
BytecodeLoop(mem, d) ==
    LET op == Read8(mem, d.offset)
        opcode == (op \div 16) % 16
        oparg == op % 16
        r == [d EXCEPT !.reads = Append(@, d.offset)]
    IN IF op = None THEN [r EXCEPT !.raised = "TypeError"]
       ELSE LET n == [r EXCEPT !.offset = @ + 1]
            IN IF opcode = BLOCK_LAYOUT_ESCAPE THEN n
               ELSE IF OpcodeContinues(opcode)
               THEN BytecodeLoop(mem, AppendOp(n, opcode, oparg))
               ELSE [n EXCEPT !.warned = TRUE]

\* The decoder's state on entry: the caller's structure, the caller's
\* byref_indexes list (when one is passed) and the reader not yet created.
DecodeStart(struct, byref_given, byref_indexes) ==
    [struct |-> struct, byref_given |-> byref_given, byref_indexes |-> byref_indexes,
     offset |-> Unset, reads |-> <<>>, layout_end |-> Unset,
     warned |-> FALSE, raised |-> "none"]

\* Mutant: layout_end is the address of the last byte read, not the one
\* after it.
AppendLayoutFields_EndAtTerminator(mem, struct, layout, block_has_extended_layout, byref_given, byref_indexes, end_given) ==
    LET d == DecodeStart(struct, byref_given, byref_indexes)
    IN IF layout = 0 THEN d
       ELSE IF ~block_has_extended_layout THEN d
       ELSE IF layout < CompactLimit THEN AppendCompact(d, layout)
       ELSE LET e == BytecodeLoop(mem, [d EXCEPT !.offset = layout])
            IN IF e.raised = "none" /\ end_given
               THEN [e EXCEPT !.layout_end = e.offset - 1]
               ELSE e

\* Mutant: the early return for a block without extended layout is missing.
AppendLayoutFields_NoExtendedCheck(mem, struct, layout, block_has_extended_layout, byref_given, byref_indexes, end_given) ==
    LET d == DecodeStart(struct, byref_given, byref_indexes)
    IN IF layout = 0 THEN d
       ELSE IF layout < CompactLimit THEN AppendCompact(d, layout)
       ELSE LET e == BytecodeLoop(mem, [d EXCEPT !.offset = layout])
            IN IF e.raised = "none" /\ end_given
               THEN [e EXCEPT !.layout_end = e.offset]
               ELSE e

\* append_layout_fields(bv, struct, layout, block_has_extended_layout,
\*                      byref_indexes, layout_end_obj) over the memory mem.
\* The result carries the structure and the list after the call, the
\* addresses read, the value stored to layout_end_obj.layout_end (Unset when
\* none is stored), whether the warning was printed and what was raised.
AppendLayoutFields(mem, struct, layout, block_has_extended_layout, byref_given, byref_indexes, end_given) ==
    LET d == DecodeStart(struct, byref_given, byref_indexes)
    IN IF layout = 0 THEN d
       ELSE IF ~block_has_extended_layout THEN d
       ELSE IF layout < CompactLimit THEN AppendCompact(d, layout)
       ELSE LET e == BytecodeLoop(mem, [d EXCEPT !.offset = layout])
            IN IF e.raised = "none" /\ end_given
               THEN [e EXCEPT !.layout_end = e.offset]
               ELSE e

\* ------------------------------------------------------------------------
\* The structures the callers of append_layout_fields pass to it

\* annotate_literal: the packed structure with the five header members, the
\* descriptor member being a pointer to the generic Block_descriptor_1.
LiteralHeader ==
    LET s0 == StructureBuilderCreate(TRUE)
        s1 == StructAppend(s0, TypeClass, PlainName("isa"))
        s2 == StructAppend(s1, TypeVolatileUint32, PlainName("flags"))
        s3 == StructAppend(s2, TypeUint32, PlainName("reserved"))
        s4 == StructAppend(s3, TypeNamed("BlockInvokeFunction"), PlainName("invoke"))
    IN StructAppend(s4, TypePointer(PlainName("Block_descriptor_1")), PlainName("descriptor"))

\* annotate_stack_block_literal: the structure of a byref cell as created,
\* binja.StructureBuilder.create() without packed=True, with its four
\* header members.
ByrefHeader ==
    LET s0 == StructureBuilderCreate(FALSE)
        s1 == StructAppend(s0, TypeClass, PlainName("isa"))
        s2 == StructAppend(s1, TypeNamed("void *"), PlainName("forwarding"))
        s3 == StructAppend(s2, TypeVolatileInt32, PlainName("flags"))
    IN StructAppend(s3, TypeUint32, PlainName("size"))

\* annotate_stack_block_literal: the structure of a byref cell with the
\* extended layout kind and no keep and destroy members, at the call of
\* append_layout_fields.
ByrefHeaderExtended ==
    StructAppend(ByrefHeader, TypeNamed("void *"), PlainName("layout"))

\* ------------------------------------------------------------------------
\* The type registry of the view

\* The names _OBJC_TYPE_SOURCE and _LIBCLOSURE_TYPE_SOURCE define.
ObjcTypeNames == {"objc_class", "Class", "objc_object", "id"}

LibclosureTypeNames ==
    {"BLOCK_LITERAL_FLAGS", "BLOCK_BYREF_FLAGS", "BlockCopyFunction",
     "BlockDisposeFunction", "BlockInvokeFunction", "Block_byref_1",
     "BlockByrefKeepFunction", "BlockByrefDestroyFunction", "Block_byref_2",
     "Block_byref_3", "Block_descriptor_1", "Block_descriptor_2",
     "Block_descriptor_3", "Block_literal"}

\* A registry with no type of the plugin in it.
NoTypes == [n \in {} |-> StructureBuilderCreate(FALSE)]

\* What the registry holds for a type parsed from one of the two sources;
\* the plugin never looks inside these.
ParsedType == StructureBuilderCreate(FALSE)

\* bv.define_type(id, name, builder): the registry holds the structure as it
\* is at the call.
DefineType(types, name, struct) ==
    [n \in DOMAIN types \cup {name} |-> IF n = name THEN struct ELSE types[n]]

\* _get_custom_type(bv, name, source), as the registry it leaves: when name
\* is not defined yet, every type of the source is defined.
GetCustomType(types, name, source_names) ==
    IF PlainName(name) \in DOMAIN types THEN types
    ELSE [n \in DOMAIN types \cup {PlainName(s) : s \in source_names} |->
            IF n \in {PlainName(s) : s \in source_names} THEN ParsedType ELSE types[n]]

GetObjcType(types, name) == GetCustomType(types, name, ObjcTypeNames)

GetLibclosureType(types, name) ==
    GetCustomType(GetObjcType(types, "Class"), name, LibclosureTypeNames)

\* ------------------------------------------------------------------------
\* Exceptions

NoExc == [type |-> "none", stage |-> "none"]
Raised(type, stage) == [type |-> type, stage |-> stage]

\* ------------------------------------------------------------------------
\* Memory images of a literal and of a descriptor

\* struct Block_literal as it lies in memory.
LiteralImage(isa, flags, reserved, invoke, descriptor) ==
    [isa |-> isa, flags |-> flags, reserved |-> reserved, invoke |-> invoke,
     descriptor |-> descriptor]

\* The 64-bit words of a descriptor as the compiler lays them out for a
\* literal with these flags: Block_descriptor_1, then Block_descriptor_2
\* when the literal has copy and dispose helpers, then Block_descriptor_3
\* when it has a signature.  No word is mapped after them.
DescriptorImage(flags, size, copy, dispose, signature, layout) ==
    <<0, size>>
      \o (IF BLOCK_HAS_COPY_DISPOSE \in flags THEN <<copy, dispose>> ELSE <<>>)
      \o (IF BLOCK_HAS_SIGNATURE \in flags THEN <<signature, layout>> ELSE <<>>)

\* br.read64() at the byte offset off of the image, None where unmapped.
Read64(image, off) ==
    IF off \div 8 + 1 <= Len(image) THEN image[off \div 8 + 1] ELSE None

\* ------------------------------------------------------------------------
\* BlockLiteral

\* The literal object before it is constructed.
NoLiteral ==
    [constructed |-> FALSE, is_stack_block |-> FALSE, address |-> 0,
     insn_kind |-> "none", isa |-> 0, flags |-> {}, reserved |-> 0, invoke |-> 0,
     descriptor |-> 0, has_byref_indexes |-> FALSE, byref_indexes |-> <<>>,
     has_struct |-> FALSE, struct_builder |-> StructureBuilderCreate(TRUE),
     struct_name |-> NoName]

\* Mutant: the assertions on IS_GLOBAL are missing.
BlockLiteralInit_NoGlobalAssert(is_stack_block, address, insn_kind, isa, flags, reserved, invoke, descriptor) ==
    LET self == [NoLiteral EXCEPT
                   !.constructed = TRUE, !.is_stack_block = is_stack_block,
                   !.address = address, !.insn_kind = insn_kind, !.isa = isa,
                   !.flags = flags, !.reserved = reserved, !.invoke = invoke,
                   !.descriptor = descriptor]
    IN IF invoke # 0 /\ descriptor # 0 THEN [bl |-> self, exc |-> NoExc]
       ELSE [bl |-> NoLiteral, exc |-> Raised("AssertionError", "BlockLiteral")]

\* BlockLiteral.__init__: the object, or the assertion that fails.
BlockLiteralInit(is_stack_block, address, insn_kind, isa, flags, reserved, invoke, descriptor) ==
    LET self == [NoLiteral EXCEPT
                   !.constructed = TRUE, !.is_stack_block = is_stack_block,
                   !.address = address, !.insn_kind = insn_kind, !.isa = isa,
                   !.flags = flags, !.reserved = reserved, !.invoke = invoke,
                   !.descriptor = descriptor]
        ok == /\ invoke # 0
              /\ descriptor # 0
              /\ IF is_stack_block THEN BLOCK_IS_GLOBAL \notin flags
                 ELSE BLOCK_IS_GLOBAL \in flags
    IN IF ok THEN [bl |-> self, exc |-> NoExc]
       ELSE [bl |-> NoLiteral, exc |-> Raised("AssertionError", "BlockLiteral")]

\* BlockLiteral.from_data: the five header fields read from the image.
FromData(address, image) ==
    BlockLiteralInit(FALSE, address, "none", image.isa, image.flags, image.reserved,
                     image.invoke, image.descriptor)

\* ------------------------------------------------------------------------
\* BlockDescriptor

\* The descriptor object before it is constructed.  reads is the log of the
\* offsets its reader was asked for, kept also when construction fails.
NoDescriptor ==
    [constructed |-> FALSE, address |-> 0, block_flags |-> {}, reserved |-> Unset,
     size |-> Unset, copy |-> Unset, dispose |-> Unset, signature |-> Unset,
     signature_raw |-> Unset, layout |-> Unset, layout_end |-> Unset,
     reads |-> <<>>, has_struct |-> FALSE,
     struct_builder |-> StructureBuilderCreate(FALSE), struct_name |-> NoName]

block_has_copy_dispose(bd) == BLOCK_HAS_COPY_DISPOSE \in bd.block_flags
block_has_signature(bd) == BLOCK_HAS_SIGNATURE \in bd.block_flags
block_has_extended_layout(bd) == BLOCK_HAS_EXTENDED_LAYOUT \in bd.block_flags
block_is_global(bd) == BLOCK_IS_GLOBAL \in bd.block_flags

imported_variables_size(bd) == bd.size - HeaderSize

\* self.x = br.read64(): the value goes to the attribute, the offset read
\* goes to the log, and the reader moves on by 8.
ReadField(r, image, field) ==
    LET off == 8 * Len(r.reads)
    IN [r EXCEPT ![field] = Read64(image, off), !.reads = Append(@, off)]

\* Mutant: signature and layout are read at the fixed offsets 32 and 40.
ReadOptionalFields_FixedSignatureOffset(r1, image, sig_string) ==
    LET r2 == IF block_has_copy_dispose(r1)
              THEN ReadField(ReadField(r1, image, "copy"), image, "dispose")
              ELSE [r1 EXCEPT !.copy = None, !.dispose = None]
        r3 == [r2 EXCEPT !.signature = Read64(image, 32), !.reads = Append(@, 32)]
        r4 == [r3 EXCEPT !.signature_raw = IF r3.signature \notin {0, None}
                                           THEN r3.signature ELSE None,
                         !.layout = Read64(image, 40), !.reads = Append(@, 40)]
    IN IF ~block_has_signature(r2) THEN [bd |-> r2, exc |-> NoExc]
       ELSE [bd |-> r4, exc |-> NoExc]

\* The optional reads of BlockDescriptor.__init__, after reserved and size.
\* sig_string says whether the view finds a string at the signature
\* address: where it finds none get_ascii_string_at returns None and .raw
\* raises AttributeError.
ReadOptionalFields(r1, image, sig_string) ==
    LET r2 == IF block_has_copy_dispose(r1)
              THEN ReadField(ReadField(r1, image, "copy"), image, "dispose")
              ELSE [r1 EXCEPT !.copy = None, !.dispose = None]
    IN IF ~block_has_signature(r2) THEN [bd |-> r2, exc |-> NoExc]
       ELSE LET r3 == ReadField(r2, image, "signature")
            IN IF r3.signature = None \/ (r3.signature # 0 /\ ~sig_string)
               THEN [bd |-> [NoDescriptor EXCEPT !.reads = r3.reads],
                     exc |-> Raised("AttributeError", "BlockDescriptor")]
               ELSE LET r4 == [r3 EXCEPT !.signature_raw =
                                  IF r3.signature # 0 THEN r3.signature ELSE None]
                    IN [bd |-> ReadField(r4, image, "layout"), exc |-> NoExc]

\* Mutant: the size is asserted after the optional fields are read.
BlockDescriptorInit_LateSizeAssert(descriptor_address, block_flags, image, sig_string) ==
    LET r0 == [NoDescriptor EXCEPT !.constructed = TRUE,
                                   !.address = descriptor_address,
                                   !.block_flags = block_flags]
        r1 == ReadField(ReadField(r0, image, "reserved"), image, "size")
        r == ReadOptionalFields(r1, image, sig_string)
    IN IF r1.size = None
       THEN [bd |-> [NoDescriptor EXCEPT !.reads = r1.reads],
             exc |-> Raised("TypeError", "BlockDescriptor")]
       ELSE IF r.exc = NoExc /\ ~(r1.size >= HeaderSize)
       THEN [bd |-> [NoDescriptor EXCEPT !.reads = r.bd.reads],
             exc |-> Raised("AssertionError", "BlockDescriptor")]
       ELSE r

\* BlockDescriptor.__init__(bv, descriptor_address, block_flags) over the
\* words at the descriptor's address: the object, or what is raised.  The
\* text of the signature string is identified by its address.
BlockDescriptorInit(descriptor_address, block_flags, image, sig_string) ==
    LET r0 == [NoDescriptor EXCEPT !.constructed = TRUE,
                                   !.address = descriptor_address,
                                   !.block_flags = block_flags]
        r1 == ReadField(ReadField(r0, image, "reserved"), image, "size")
    IN IF r1.size = None
       THEN [bd |-> [NoDescriptor EXCEPT !.reads = r1.reads],
             exc |-> Raised("TypeError", "BlockDescriptor")]
       ELSE IF ~(r1.size >= HeaderSize)
       THEN [bd |-> [NoDescriptor EXCEPT !.reads = r1.reads],
             exc |-> Raised("AssertionError", "BlockDescriptor")]
       ELSE ReadOptionalFields(r1, image, sig_string)

\* ------------------------------------------------------------------------
\* HLIL instructions and BlockLiteral.from_stack

\* The identifier of the candidate stack variable.
BlockVarId == 1

\* An HLIL instruction as the plugin inspects it: its operation, the shape
\* of its destination (dest, dest_src, and whether the expression under an
\* array index or a field access is a variable), the variable it is rooted
\* at, the member index of the destination and the source expression.  A
\* constant source carries its value in constant, or in bits (the set of
\* bit positions) when it is a flags word.
Insn(op, dest, dest_src, root_is_var, var, member_index, src, name, constant, bits) ==
    [op |-> op, dest |-> dest, dest_src |-> dest_src, root_is_var |-> root_is_var,
     var |-> var, member_index |-> member_index, src |-> src, name |-> name,
     constant |-> constant, bits |-> bits]

\* var.<member k> = <constant>
AssignConst(var, k, constant) ==
    Insn("Assign", "StructField", "Var", TRUE, var, k, "Const", "", constant, {})
\* var.flags = <constant flags word>
AssignFlags(var, bits) ==
    Insn("Assign", "StructField", "Var", TRUE, var, 1, "Const", "", 0, bits)
\* var.isa = __NSConcreteStackBlock
AssignIsa(var) ==
    Insn("Assign", "StructField", "Var", TRUE, var, 0, "Import",
         "__NSConcreteStackBlock", 0, {})

\* What yield_struct_field_assign_hlil_instructions_for_var_id does with one
\* instruction of the function: "yield", "skip" or "raise".
YieldDecision(insn, var_id) ==
    IF insn.op # "Assign" THEN "skip"
    ELSE IF insn.dest # "StructField" THEN "skip"
    ELSE IF insn.dest_src \notin {"Var", "ArrayIndex", "StructField", "DerefField"}
    THEN "raise"
    ELSE IF insn.dest_src = "DerefField" THEN "skip"
    ELSE IF insn.dest_src \in {"ArrayIndex", "StructField"} /\ ~insn.root_is_var
    THEN "skip"
    ELSE IF insn.var # var_id THEN "skip"
    ELSE "yield"

IsConst(src) == src \in {"Const", "ConstPtr"}

\* Mutant: the loop does not wait for reserved.
HeaderLocals_NoReserved == {"isa", "flags", "invoke", "descriptor"}

\* The locals the loop waits for, and the constructor call reads.
HeaderLocals == {"isa", "flags", "reserved", "invoke", "descriptor"}

\* The locals of from_stack before the loop: none of the five is bound.
NoLocals ==
    [bound |-> {}, isa |-> 0, flags |-> {}, reserved |-> 0, invoke |-> 0,
     descriptor |-> 0, scanned |-> 0, exc |-> NoExc]

\* Mutant: a structure field as the source of flags is passed over like any
\* other source that is not a constant.
FromStackInsn_FlagsFieldIgnored(l, insn) ==
    IF insn.member_index = 0
    THEN IF insn.src = "Import" /\ insn.name = "__NSConcreteStackBlock"
         THEN [l EXCEPT !.isa = insn.constant, !.bound = @ \cup {"isa"}]
         ELSE l
    ELSE IF insn.member_index = 1
    THEN IF IsConst(insn.src)
         THEN [l EXCEPT !.flags = insn.bits, !.bound = @ \cup {"flags"}]
         ELSE l
    ELSE IF insn.member_index = 2
    THEN [l EXCEPT !.reserved = IF IsConst(insn.src) THEN insn.constant ELSE None,
                   !.bound = @ \cup {"reserved"}]
    ELSE IF insn.member_index = 3
    THEN IF IsConst(insn.src)
         THEN [l EXCEPT !.invoke = insn.constant, !.bound = @ \cup {"invoke"}]
         ELSE l
    ELSE IF insn.member_index = 4
    THEN IF IsConst(insn.src)
         THEN [l EXCEPT !.descriptor = insn.constant, !.bound = @ \cup {"descriptor"}]
         ELSE l
    ELSE l

\* The body of the for loop of from_stack for one yielded instruction.
FromStackInsn(l, insn) ==
    IF insn.member_index = 0
    THEN IF insn.src = "Import" /\ insn.name = "__NSConcreteStackBlock"
         THEN [l EXCEPT !.isa = insn.constant, !.bound = @ \cup {"isa"}]
         ELSE l
    ELSE IF insn.member_index = 1
    THEN IF insn.src = "StructField"
         THEN [l EXCEPT !.exc = Raised("RuntimeError", "from_stack")]
         ELSE IF IsConst(insn.src)
         THEN [l EXCEPT !.flags = insn.bits, !.bound = @ \cup {"flags"}]
         ELSE l
    ELSE IF insn.member_index = 2
    THEN [l EXCEPT !.reserved = IF IsConst(insn.src) THEN insn.constant ELSE None,
                   !.bound = @ \cup {"reserved"}]
    ELSE IF insn.member_index = 3
    THEN IF IsConst(insn.src)
         THEN [l EXCEPT !.invoke = insn.constant, !.bound = @ \cup {"invoke"}]
         ELSE l
    ELSE IF insn.member_index = 4
    THEN IF IsConst(insn.src)
         THEN [l EXCEPT !.descriptor = insn.constant, !.bound = @ \cup {"descriptor"}]
         ELSE l
    ELSE l

RECURSIVE FromStackLoop(_, _, _, _)
\* The for loop of from_stack over the generator, from instruction i on:
\* the generator is consumed lazily, so an instruction it would raise on
\* raises only when the loop gets to it.  scanned counts the instructions
\* the generator has looked at.
FromStackLoop(insns, i, var_id, l) ==
    IF i > Len(insns) THEN l
    ELSE LET decision == YieldDecision(insns[i], var_id)
             m == [l EXCEPT !.scanned = i]
         IN IF decision = "raise"
            THEN [m EXCEPT !.exc = Raised("NotImplementedError", "from_stack")]
            ELSE IF decision = "skip" THEN FromStackLoop(insns, i + 1, var_id, m)
            ELSE LET n == FromStackInsn(m, insns[i])
                 IN IF n.exc # NoExc THEN n
                    ELSE IF HeaderLocals \subseteq n.bound THEN n
                    ELSE FromStackLoop(insns, i + 1, var_id, n)

\* BlockLiteral.from_stack(bv, bl_insn, bl_var), after bl_var.type has been
\* set: insn_kind is the kind of bl_insn once reloaded.
FromStack(address, insn_kind, insns, var_id) ==
    IF insn_kind \notin {"VarDeclare", "VarInit", "AssignStructField"}
    THEN [bl |-> NoLiteral, exc |-> Raised("RuntimeError", "from_stack")]
    ELSE LET l == FromStackLoop(insns, 1, var_id, NoLocals)
         IN IF l.exc # NoExc THEN [bl |-> NoLiteral, exc |-> l.exc]
            ELSE IF ~(HeaderLocals \subseteq l.bound)
            THEN [bl |-> NoLiteral, exc |-> Raised("UnboundLocalError", "from_stack")]
            ELSE BlockLiteralInit(TRUE, address, insn_kind, l.isa, l.flags, l.reserved,
                                  l.invoke, l.descriptor)

\* ------------------------------------------------------------------------
\* The annotation steps

\* Mutant: the index of the first member, whatever the name.
IndexByName_First(struct, name) == 0

\* struct.index_by_name(name), counted from 0.
IndexByName(struct, name) ==
    (CHOOSE i \in 1 .. Len(struct.members) : struct.members[i].name = PlainName(name)) - 1

\* bv.set_comment_at(address, text): one comment per address.
SetCommentAt(comments, comment) ==
    {c \in comments : c.address # comment.address} \cup {comment}

\* The comment annotate_literal attaches for a structure narrower than the
\* descriptor's size.
SizeMismatchComment(address, size, width) ==
    [address |-> address, kind |-> "size_mismatch", size |-> size, width |-> width,
     n_unaccounted |-> size - width]

\* The comment annotate_literal attaches when the stack variable already has
\* the structure type of another literal.
AlreadyAnnotatedComment(address) ==
    [address |-> address, kind |-> "already_annotated", size |-> 0, width |-> 0,
     n_unaccounted |-> 0]

\* BlockLiteral.annotate_literal(bd) up to self.struct_builder = struct: the
\* five header members, then the members of the layout when the descriptor
\* announces imported variables.  Yields the literal, the descriptor (its
\* layout_end may be set), the registry, whether the decoder warned, and
\* what was raised.
BuildLiteralStruct(bl, bd, types, mem) ==
    LET t == GetLibclosureType(
                 GetLibclosureType(GetObjcType(types, "Class"), "BlockInvokeFunction"),
                 "Block_descriptor_1")
        r == AppendLayoutFields(mem, LiteralHeader, bd.layout,
                                block_has_extended_layout(bd), TRUE, <<>>, TRUE)
    IN IF ~(imported_variables_size(bd) > 0)
       THEN [bl |-> [bl EXCEPT !.has_struct = TRUE, !.struct_builder = LiteralHeader],
             bd |-> bd, types |-> t, warned |-> FALSE, exc |-> NoExc]
       ELSE IF bd.layout = Unset
       THEN [bl |-> [bl EXCEPT !.has_byref_indexes = TRUE], bd |-> bd, types |-> t,
             warned |-> FALSE, exc |-> Raised("AttributeError", "annotate_literal")]
       ELSE IF r.raised # "none"
       THEN [bl |-> [bl EXCEPT !.has_byref_indexes = TRUE,
                               !.byref_indexes = r.byref_indexes],
             bd |-> bd, types |-> t, warned |-> r.warned,
             exc |-> Raised(r.raised, "annotate_literal")]
       ELSE [bl |-> [bl EXCEPT !.has_byref_indexes = TRUE,
                               !.byref_indexes = r.byref_indexes,
                               !.has_struct = TRUE, !.struct_builder = r.struct],
             bd |-> [bd EXCEPT !.layout_end =
                        IF r.layout_end # Unset THEN r.layout_end ELSE @],
             types |-> t, warned |-> r.warned, exc |-> NoExc]

\* How annotate_literal ends once the structure type is defined: "raise"
\* for a stack literal whose instruction is neither a declaration nor a
\* field assignment, "return" for a stack variable that already carries
\* another literal's type, "apply" otherwise.
ApplyDecision(bl, var_annotated) ==
    IF ~bl.is_stack_block THEN "apply"
    ELSE IF bl.insn_kind \notin {"VarDeclare", "AssignStructField"} THEN "raise"
    ELSE IF var_annotated THEN "return"
    ELSE "apply"

\* Mutant: the comment is attached also when the width equals the size.
SizeMismatch_OrEqual(struct, bd) == struct.width <= bd.size

\* Whether annotate_literal attaches the size mismatch comment.
SizeMismatch(struct, bd) == struct.width < bd.size

\* The members of the descriptor structure.
DescriptorStruct(bd) ==
    LET s0 == StructureBuilderCreate(FALSE)
        s1 == StructAppend(s0, TypeUint64, PlainName("reserved"))
        s2 == StructAppend(s1, TypeUint64, PlainName("size"))
        s3 == IF block_has_copy_dispose(bd)
              THEN StructAppend(
                     StructAppend(s2, TypeNamed("BlockCopyFunction"), PlainName("copy")),
                     TypeNamed("BlockDisposeFunction"), PlainName("dispose"))
              ELSE s2
        layout_type ==
            IF bd.layout # 0 /\ block_has_extended_layout(bd)
            THEN IF bd.layout < CompactLimit THEN TypeUint64
                 ELSE TypeNamed("uint8_t const *")
            ELSE TypeNamed("void *")
    IN IF block_has_signature(bd)
       THEN StructAppend(
              StructAppend(s3, TypeNamed("char const *"), PlainName("signature")),
              layout_type, PlainName("layout"))
       ELSE s3

\* A data variable of the view.
DataVar(address, type, name) == [address |-> address, type |-> type, name |-> name]

\* shinobi.make_data_var(bv, address, type, name): the view holds one data
\* variable per address.
MakeDataVar(data_vars, address, type, name) ==
    {v \in data_vars : v.address # address} \cup {DataVar(address, type, name)}

\* self.data_var.name = ...; self.data_var.type = ...: the data variable of
\* a global literal gets its name and the literal's structure type.
RetypeDataVar(data_vars, address, type, name) ==
    {v \in data_vars : v.address # address} \cup {DataVar(address, type, name)}

\* What annotate_functions found and did for the invoke function: whether
\* the view has one, its parameters, how the translation of the signature
\* ended and which rung of the ladder typed the function.
NoInvoke ==
    [exists |-> FALSE, n_params |-> 0, translation |-> "none", n_types |-> 0,
     ladder |-> "none"]

\* ------------------------------------------------------------------------
\* Candidates

\* Addresses of the candidate's literal (or of its initialising
\* instruction), descriptor, functions and signature string.
LiteralAddr == 32768
DescAddr == 36864
InvokeAddr == 8192
CopyAddr == 8448
DisposeAddr == 8704
SigAddr == 12288
\* The address of the imported class symbol the isa member holds.
ConcreteBlockAddr == 1024

FlagSets ==
    SUBSET {BLOCK_HAS_EXTENDED_LAYOUT, BLOCK_HAS_SIGNATURE, BLOCK_IS_GLOBAL,
            BLOCK_HAS_COPY_DISPOSE}

\* The bytecode memory of the candidates, mapped at MemBase: the streams
\* 31 41 00 (strong, byref, end), 18 70 (eight bytes, unknown opcode 7),
\* 52 f3 (two weak, unknown opcode 15) and 21 running into unmapped memory.
PipeImage == <<49, 65, 0, 24, 112, 82, 243, 33>>

\* The layout words of the candidates' descriptors: 0, compact values, and
\* every address of the bytecode memory plus the first unmapped one.
LayoutWords == {0, 1, 16, 273, 512} \cup (MemBase .. MemBase + Len(PipeImage))

\* The size words of the candidates' descriptors.
SizeWords == {24, 32, 40, 48, 56}

\* A descriptor in memory, and whether the view finds a string at its
\* signature address.
DescriptorChoice(flags, size, signature, layout, sig_string) ==
    [dimage |-> DescriptorImage(flags, size, CopyAddr, DisposeAddr, signature, layout),
     sig_string |-> sig_string]

DescriptorChoices(flags) ==
    IF BLOCK_HAS_SIGNATURE \in flags
    THEN {DescriptorChoice(flags, size, 0, layout, FALSE) :
             size \in SizeWords, layout \in LayoutWords}
         \cup {DescriptorChoice(flags, size, SigAddr, layout, s) :
                 size \in SizeWords, layout \in LayoutWords, s \in BOOLEAN}
    ELSE {DescriptorChoice(flags, size, 0, 0, FALSE) : size \in SizeWords}

\* A descriptor for the candidates that never get to read one.
PlainDescriptor(flags) == DescriptorChoice(flags, 40, 0, 0, FALSE)
\* A descriptor pointer into unmapped memory.
UnmappedDescriptor == [dimage |-> <<>>, sig_string |-> FALSE]

\* The field assignments of a stack literal, as the scenario of the
\* specification orders them (invoke, flags, descriptor, isa), with the
\* assignment to reserved last when there is one.
HeaderAssignments(flags, invoke, descriptor, with_reserved) ==
    <<AssignConst(BlockVarId, 3, invoke), AssignFlags(BlockVarId, flags),
      AssignConst(BlockVarId, 4, descriptor), AssignIsa(BlockVarId)>>
      \o (IF with_reserved THEN <<AssignConst(BlockVarId, 2, 0)>> ELSE <<>>)

\* s with x put in before position p.
InsertAt(s, p, x) == SubSeq(s, 1, p - 1) \o <<x>> \o SubSeq(s, p, Len(s))

\* The flags words of the drawn streams.
ScanFlagSets == {{BLOCK_HAS_COPY_DISPOSE}, {BLOCK_HAS_SIGNATURE, BLOCK_HAS_EXTENDED_LAYOUT}}

\* var.flags = <a field of another structure>
AssignFlagsFromField(var) ==
    Insn("Assign", "StructField", "Var", TRUE, var, 1, "StructField", "", 0, {})

\* The sources of an assignment that are not constants.
NonConstantSources == {"Var", "StructField", "Call"}

\* Streams in which the source of the assignment to invoke, flags or
\* descriptor (positions 1, 2, 3 of HeaderAssignments) is not a constant,
\* and streams that hold an assignment of a structure field to flags
\* besides the constant one, at every position.
NonConstantStreams(flags) ==
    LET base == HeaderAssignments(flags, InvokeAddr, DescAddr, TRUE)
    IN {[base EXCEPT ![i] = [base[i] EXCEPT !.src = src]] :
           i \in 1 .. 3, src \in NonConstantSources}
       \cup {InsertAt(base, p, AssignFlagsFromField(BlockVarId)) : p \in 1 .. Len(base) + 1}

\* *(p) .field = <constant>: a field assignment whose destination is none
\* of the shapes the generator knows.
AssignThroughDeref ==
    Insn("Assign", "StructField", "Deref", FALSE, 0, 9, "Const", "", 0, {})

\* Streams with all five header assignments and such an assignment at
\* every position.
UnknownDestinationStreams(flags) ==
    LET base == HeaderAssignments(flags, InvokeAddr, DescAddr, TRUE)
    IN {InsertAt(base, p, AssignThroughDeref) : p \in 1 .. Len(base) + 1}

GlobalCandidate(isa_ok, flags, invoke, descriptor, d) ==
    [is_stack_block |-> FALSE, address |-> LiteralAddr, isa_ok |-> isa_ok,
     image |-> LiteralImage(ConcreteBlockAddr, flags, 0, invoke, descriptor),
     insns |-> <<>>, insn_kind |-> "none", var_annotated |-> FALSE,
     dimage |-> d.dimage, sig_string |-> d.sig_string, mem |-> PipeImage]

StackCandidate(isa_ok, insns, insn_kind, var_annotated, d) ==
    [is_stack_block |-> TRUE, address |-> LiteralAddr, isa_ok |-> isa_ok,
     image |-> LiteralImage(0, {}, 0, 0, 0),
     insns |-> insns, insn_kind |-> insn_kind, var_annotated |-> var_annotated,
     dimage |-> d.dimage, sig_string |-> d.sig_string, mem |-> PipeImage]

\* The header values of a candidate: the usual ones, a null invoke, a null
\* descriptor.
HeaderPointers == {<<InvokeAddr, DescAddr>>, <<0, DescAddr>>, <<InvokeAddr, 0>>}

GlobalFlagSets == {f \in FlagSets : BLOCK_IS_GLOBAL \in f}
StackFlagSets == {f \in FlagSets : BLOCK_IS_GLOBAL \notin f}

\* Global candidates: every global flags word with every descriptor, one
\* with an unmapped descriptor pointer, and the candidates that are turned
\* down before a descriptor is read (isa is not the global block class,
\* IS_GLOBAL clear, a null invoke or descriptor).
GlobalCandidates ==
    UNION {{GlobalCandidate(TRUE, f, InvokeAddr, DescAddr, d) : d \in DescriptorChoices(f)} :
             f \in GlobalFlagSets}
    \cup {GlobalCandidate(TRUE, {BLOCK_IS_GLOBAL}, InvokeAddr, DescAddr, UnmappedDescriptor)}
    \cup {GlobalCandidate(ok, f, p[1], p[2], PlainDescriptor(f)) :
            ok \in BOOLEAN, f \in FlagSets, p \in HeaderPointers}

\* The kinds the reloaded initialising instruction of a stack literal has.
InsnKinds == {"VarDeclare", "VarInit", "AssignStructField", "Other"}

\* Stack candidates: every stack flags word with every descriptor, for each
\* kind of instruction and state of the stack variable, and the candidates
\* that are turned down before a descriptor is read (also the one whose
\* function never assigns reserved).
StackCandidates ==
    UNION {{StackCandidate(TRUE, HeaderAssignments(f, InvokeAddr, DescAddr, TRUE), k, a, d) :
              d \in DescriptorChoices(f), k \in InsnKinds \ {"Other"}, a \in BOOLEAN} :
             f \in StackFlagSets}
    \cup {StackCandidate(ok, HeaderAssignments(f, p[1], p[2], r), k, FALSE, PlainDescriptor(f)) :
            ok \in BOOLEAN, f \in FlagSets, p \in HeaderPointers, r \in BOOLEAN,
            k \in InsnKinds}
    \cup UNION {{StackCandidate(TRUE, s, "AssignStructField", FALSE, PlainDescriptor(f)) :
                    s \in NonConstantStreams(f) \cup UnknownDestinationStreams(f)} :
                 f \in ScanFlagSets}

Candidates == GlobalCandidates \cup StackCandidates

\* ------------------------------------------------------------------------
\* State

\* ------------------------------------------------------------------------
\* annotate_stack_block_literal: the structure of a byref cell

\* What the scan for the assignment to the layout member finds: no such
\* assignment, or the first one, whose source is a constant or is not.
NoLayoutSrc == [found |-> FALSE, constant |-> FALSE, value |-> 0]

LayoutSrc(constant, value) == [found |-> TRUE, constant |-> constant, value |-> value]

\* The extended layout kind: the layout member is appended, the scan binds
\* byref_layout to the constant assigned to it, the member is retyped by
\* the value and append_layout_fields decodes the value.  Without an
\* assignment byref_layout is unbound where it is first read.
ByrefExtended(mem, struct, layout_src) ==
    LET s1 == StructAppend(struct, TypeNamed("void *"), PlainName("layout"))
        layout_index == IndexByName(s1, "layout")
        byref_layout == layout_src.value
        s2 == IF byref_layout = 0 THEN s1
              ELSE IF byref_layout < CompactLimit
              THEN StructReplace(s1, layout_index, TypeUint64, PlainName("layout"))
              ELSE StructReplace(s1, layout_index, TypeNamed("uint8_t const *"),
                                 PlainName("layout"))
        d == AppendLayoutFields(mem, s2, byref_layout, TRUE, FALSE, <<>>, FALSE)
    IN IF ~layout_src.found
       THEN [struct |-> s1, exc |-> "UnboundLocalError", warned |-> FALSE]
       ELSE IF ~layout_src.constant
       THEN [struct |-> s1, exc |-> "AssertionError", warned |-> FALSE]
       ELSE [struct |-> d.struct, exc |-> d.raised, warned |-> d.warned]

\* Mutant: the weak kind is taken for every flags word with bit 30 set, in
\* an if of its own.
ByrefPayload_WeakByBit(mem, struct, byref_flags, layout_src) ==
    LET byref_layout_nibble == byref_flags \cap BLOCK_BYREF_LAYOUT_MASK
        done(s) == [struct |-> s, exc |-> "none", warned |-> FALSE]
        weak(s) == IF 30 \in byref_flags
                   THEN StructAppend(s, TypeId, PlainName("weak_ptr_0")) ELSE s
    IN IF byref_layout_nibble = BLOCK_BYREF_LAYOUT_EXTENDED
       THEN ByrefExtended(mem, struct, layout_src)
       ELSE IF byref_layout_nibble = BLOCK_BYREF_LAYOUT_NON_OBJECT
       THEN done(StructAppend(struct, TypeUint64, PlainName("non_object_0")))
       ELSE IF byref_layout_nibble = BLOCK_BYREF_LAYOUT_STRONG
       THEN done(StructAppend(struct, TypeId, PlainName("strong_ptr_0")))
       ELSE IF byref_layout_nibble = BLOCK_BYREF_LAYOUT_UNRETAINED
       THEN done(StructAppend(weak(struct), TypeId, PlainName("unretained_ptr_0")))
       ELSE done(weak(struct))

\* The if / elif chain over byref_flags & BLOCK_BYREF_LAYOUT_MASK.
ByrefPayload(mem, struct, byref_flags, layout_src) ==
    LET byref_layout_nibble == byref_flags \cap BLOCK_BYREF_LAYOUT_MASK
        done(s) == [struct |-> s, exc |-> "none", warned |-> FALSE]
    IN IF byref_layout_nibble = BLOCK_BYREF_LAYOUT_EXTENDED
       THEN ByrefExtended(mem, struct, layout_src)
       ELSE IF byref_layout_nibble = BLOCK_BYREF_LAYOUT_NON_OBJECT
       THEN done(StructAppend(struct, TypeUint64, PlainName("non_object_0")))
       ELSE IF byref_layout_nibble = BLOCK_BYREF_LAYOUT_STRONG
       THEN done(StructAppend(struct, TypeId, PlainName("strong_ptr_0")))
       ELSE IF byref_layout_nibble = BLOCK_BYREF_LAYOUT_WEAK
       THEN done(StructAppend(struct, TypeId, PlainName("weak_ptr_0")))
       ELSE IF byref_layout_nibble = BLOCK_BYREF_LAYOUT_UNRETAINED
       THEN done(StructAppend(struct, TypeId, PlainName("unretained_ptr_0")))
       ELSE done(struct)

\* The keep and destroy members, appended when the flags have the
\* copy-dispose bit.
ByrefKeepDestroy(struct, byref_flags) ==
    IF BLOCK_BYREF_HAS_COPY_DISPOSE \in byref_flags
    THEN StructAppend(StructAppend(struct, TypeNamed("BlockByrefKeepFunction"),
                                   PlainName("byref_keep")),
                      TypeNamed("BlockByrefDestroyFunction"), PlainName("byref_destroy"))
    ELSE struct

\* The structure of a byref cell whose flags and size are bound, from its
\* creation to the end of the chain over the layout kind.
ByrefStruct(mem, byref_flags, layout_src) ==
    ByrefPayload(mem, ByrefKeepDestroy(ByrefHeader, byref_flags), byref_flags, layout_src)

\* The address of the instruction that declares the byref variable.
ByrefAddr == 20480

\* byref_struct.replace(1, pointer to the registered structure, "forwarding")
ByrefForwardingLinked(struct) ==
    StructReplace(struct, 1, TypePointer(HexName("Block_byref_", ByrefAddr)),
                  PlainName("forwarding"))

\* ------------------------------------------------------------------------
\* annotate_stack_block_literal: the byref stage

\* The variables an assignment to a byref slot can take the address of:
\* whether the function declares the variable, what the scans over the
\* assignments to its members find (flags, size, layout), and the address
\* of the instruction that declares it.  Cell 1 is a strong cell, cell 2 an
\* extended cell with keep and destroy and a compact layout of one strong
\* pointer, cell 3 is not declared in the function (a parameter), cell 4
\* has no constant assigned to its flags.
ByrefCell(c) ==
    IF c = 1
    THEN [declared |-> TRUE, flags_found |-> TRUE, size_found |-> TRUE,
          flags |-> BLOCK_BYREF_LAYOUT_STRONG, layout_src |-> NoLayoutSrc,
          address |-> ByrefAddr]
    ELSE IF c = 2
    THEN [declared |-> TRUE, flags_found |-> TRUE, size_found |-> TRUE,
          flags |-> {BLOCK_BYREF_HAS_COPY_DISPOSE} \cup BLOCK_BYREF_LAYOUT_EXTENDED,
          layout_src |-> LayoutSrc(TRUE, 256), address |-> ByrefAddr + 16]
    ELSE IF c = 3
    THEN [declared |-> FALSE, flags_found |-> FALSE, size_found |-> FALSE,
          flags |-> {}, layout_src |-> NoLayoutSrc, address |-> ByrefAddr + 32]
    ELSE [declared |-> TRUE, flags_found |-> FALSE, size_found |-> TRUE,
          flags |-> {}, layout_src |-> NoLayoutSrc, address |-> ByrefAddr + 48]

ByrefCells == 1 .. 4

\* The source of an assignment to a member of the literal: the address of
\* a variable ("AddressOfVar", with the cell), the address of something
\* else ("AddressOf"), one of the shapes the stage passes over in silence
\* ("Listed": a constant, a call, a variable, ...) or a shape it does not
\* know ("Unrecognized").
ByrefSrc(kind, cell) == [kind |-> kind, cell |-> cell]

\* An assignment to member member_index of the literal's variable.
ByrefAssign(member_index, src) == [member_index |-> member_index, src |-> src]

\* The locals byref_flags, byref_size and byref_layout, which live from
\* one cell of the loop to the next.
NoByrefLocals ==
    [flags_bound |-> FALSE, byref_flags |-> {}, size_bound |-> FALSE,
     layout_bound |-> FALSE, byref_layout |-> 0]

\* The state of the stage on entry: the literal's structure builder, its
\* byref_indexes, the registry, the locals, the slots linked so far (member
\* index and cell) and what was raised.
StageStart(lit, byref_indexes) ==
    [lit |-> lit, byref_indexes |-> byref_indexes,
     types |-> DefineType(NoTypes, HexName("Block_literal_", LiteralAddr), lit),
     locals |-> NoByrefLocals, linked |-> <<>>, exc |-> "none"]

RECURSIVE ByrefSrcs(_, _)
\* The first loop: byref_srcs, the sources of the assignments to byref
\* slots in instruction order, None standing for the listed shapes; an
\* assignment of a shape the stage does not know is skipped.
ByrefSrcs(insns, byref_indexes_set) ==
    IF insns = <<>> THEN <<>>
    ELSE LET insn == Head(insns)
             rest == ByrefSrcs(Tail(insns), byref_indexes_set)
         IN IF insn.src.kind = "Unrecognized" THEN rest
            ELSE IF insn.member_index \in byref_indexes_set
            THEN <<insn>> \o rest
            ELSE rest

\* byref_struct.replace(1, pointer to the registered structure, "forwarding")
\* for the cell declared at address.
ByrefForwardingTo(struct, address) ==
    StructReplace(struct, 1, TypePointer(HexName("Block_byref_", address)),
                  PlainName("forwarding"))

\* Mutant: the literal's member loses its name.
LinkByrefMember_Renamed(lit, byref_member_index, address) ==
    StructReplace(lit, byref_member_index, TypePointer(HexName("Block_byref_", address)),
                  PlainName("byref_ptr"))

\* bl.struct_builder.replace(byref_member_index, pointer to the byref
\* structure, byref_member_name)
LinkByrefMember(lit, byref_member_index, address) ==
    StructReplace(lit, byref_member_index, TypePointer(HexName("Block_byref_", address)),
                  lit.members[byref_member_index + 1].name)

\* The body of the second loop for one entry of byref_srcs.
ByrefCellStep(st, entry) ==
    LET cell == ByrefCell(entry.src.cell)
        l0 == st.locals
        l1 == [l0 EXCEPT
                 !.flags_bound = @ \/ cell.flags_found,
                 !.byref_flags = IF cell.flags_found THEN cell.flags ELSE @,
                 !.size_bound = @ \/ cell.size_found]
        extended == l1.byref_flags \cap BLOCK_BYREF_LAYOUT_MASK = BLOCK_BYREF_LAYOUT_EXTENDED
        scanned == extended /\ cell.layout_src.found /\ cell.layout_src.constant
        l2 == [l1 EXCEPT
                 !.layout_bound = @ \/ scanned,
                 !.byref_layout = IF scanned THEN cell.layout_src.value ELSE @]
        src == IF cell.layout_src.found THEN cell.layout_src
               ELSE IF l1.layout_bound THEN LayoutSrc(TRUE, l1.byref_layout)
               ELSE NoLayoutSrc
        r == ByrefPayload(<<>>, ByrefKeepDestroy(ByrefHeader, l1.byref_flags),
                          l1.byref_flags, src)
        name == HexName("Block_byref_", cell.address)
        linked == ByrefForwardingTo(r.struct, cell.address)
        lit == LinkByrefMember(st.lit, entry.member_index, cell.address)
    IN IF entry.src.kind # "AddressOfVar" THEN st
       ELSE IF ~cell.declared THEN st
       ELSE IF ~(l1.flags_bound /\ l1.size_bound) THEN [st EXCEPT !.locals = l1]
       ELSE IF r.exc # "none" THEN [st EXCEPT !.locals = l1, !.exc = r.exc]
       ELSE IF st.lit.members[entry.member_index + 1].name.prefix # "byref_ptr_"
       THEN [st EXCEPT !.locals = l2, !.exc = "AssertionError",
                       !.types = DefineType(@, name, linked)]
       ELSE [st EXCEPT
               !.locals = l2,
               !.lit = lit,
               !.types = DefineType(DefineType(@, name, linked),
                                    HexName("Block_literal_", LiteralAddr), lit),
               !.linked = Append(@, [member_index |-> entry.member_index,
                                     cell |-> entry.src.cell])]

RECURSIVE ByrefLoop(_, _)
\* The second loop, which an exception leaves.
ByrefLoop(st, byref_srcs) ==
    IF byref_srcs = <<>> \/ st.exc # "none" THEN st
    ELSE ByrefLoop(ByrefCellStep(st, Head(byref_srcs)), Tail(byref_srcs))

\* The try block of the stage for a literal with imported variables: it
\* is entered when the literal has byref slots; bl.insn.var is read, which
\* an assignment instruction does not have; the sources are collected and
\* counted against the slots; the cells are processed.
ByrefStage(st, insn_kind, insns) ==
    LET byref_indexes_set == {st.byref_indexes[i] : i \in 1 .. Len(st.byref_indexes)}
        byref_srcs == ByrefSrcs(insns, byref_indexes_set)
    IN IF ~(Len(st.byref_indexes) > 0) THEN st
       ELSE IF insn_kind # "VarDeclare" THEN [st EXCEPT !.exc = "AttributeError"]
       ELSE IF Len(byref_srcs) # Len(st.byref_indexes)
       THEN [st EXCEPT !.exc = "AssertionError"]
       ELSE ByrefLoop(st, byref_srcs)

\* ------------------------------------------------------------------------
\* Commands as background tasks (shinobi.Task) on one registry

\* The registry calls of annotate_literal up to the definition of the
\* literal's structure, in order: _get_objc_type for Class,
\* _get_libclosure_type for BlockInvokeFunction and for Block_descriptor_1
\* (each one _get_objc_type for Class and then _get_custom_type on the
\* plugin's own source), and bv.define_type.
RegistryCalls ==
    <<[source |-> "objc", name |-> "Class"],
      [source |-> "objc", name |-> "Class"],
      [source |-> "libclosure", name |-> "BlockInvokeFunction"],
      [source |-> "objc", name |-> "Class"],
      [source |-> "libclosure", name |-> "Block_descriptor_1"],
      [source |-> "instance", name |-> "Block_literal_"]>>

SourceNames(source) == IF source = "objc" THEN ObjcTypeNames ELSE LibclosureTypeNames

\* The two tasks.
TaskIds == {1, 2}

\* A task that was not spawned.
NoTask == [call |-> 0, step |-> "idle", address |-> 0]

\* The registry as the number of times each name was defined; a name is
\* defined when it is in the domain.
NoDefs == [n \in {} |-> 0]

\* bv.define_types / bv.define_type for a set of names.
DefineNames(defs, names) ==
    [n \in DOMAIN defs \cup names |->
        IF n \in names THEN (IF n \in DOMAIN defs THEN defs[n] ELSE 0) + 1 ELSE defs[n]]

\* The task's position after the call it is in.
NextCall(task) ==
    IF task.call = Len(RegistryCalls)
    THEN [task EXCEPT !.step = "done"]
    ELSE [task EXCEPT !.call = @ + 1,
                      !.step = IF RegistryCalls[task.call + 1].source = "instance"
                               THEN "define_type" ELSE "check"]

VARIABLES
    \* SpecLayout: one call of append_layout_fields
    lay_pc,      \* "call" before the call, "returned" or "raised" after it
    lay_in,      \* the arguments and the memory image
    lay_out,     \* the decoder's state (DecodeStart before the call)
    \* Spec: the processing of one candidate
    pc,          \* the step the processing has reached
    cand,        \* the candidate: what the view holds about it
    bl,          \* the BlockLiteral object
    bd,          \* the BlockDescriptor object
    types,       \* the type registry of the view: name -> structure
    comments,    \* the comments of the view
    data_vars,   \* the data variables the plugin made or retyped
    stack_var,   \* the stack variable of a stack candidate
    invoke_fn,   \* what annotate_functions did for the invoke function
    log,         \* what was printed
    exc,         \* the exception caught at the instance boundary
    \* SpecFromStack: one call of BlockLiteral.from_stack
    fs,          \* the call's position, instruction stream, locals, result
    \* SpecSweep: a sweep over the candidates of the view
    sweep,       \* the sweep's position, its candidates and how each ended
    \* SpecByref: the structure of one byref cell
    byref,       \* what the scans found for the cell, and its structure
    \* SpecTasks: two commands running as background tasks
    tasks,       \* the shared registry and each task's position
    \* SpecByrefStage: the byref stage of one stack literal
    stage        \* the literal, the assignments to its byref slots, the result

layoutVars == <<lay_pc, lay_in, lay_out>>

pipelineVars ==
    <<pc, cand, bl, bd, types, comments, data_vars, stack_var, invoke_fn, log, exc>>

\* The variables the processing of a candidate leaves alone.
harnessVars == <<layoutVars, fs, sweep, byref, tasks, stage>>

vars == <<layoutVars, pipelineVars, fs, sweep, byref, tasks, stage>>

\* The stack variable of a stack candidate: whether its name carries the
\* stack_block_ prefix, and its type.
NoStackVar == [renamed |-> FALSE, type |-> NoName]

PipelineIdle ==
    /\ pc = "idle"
    /\ cand = GlobalCandidate(FALSE, {}, 0, 0, UnmappedDescriptor)
    /\ bl = NoLiteral
    /\ bd = NoDescriptor
    /\ types = NoTypes
    /\ comments = {}
    /\ data_vars = {}
    /\ stack_var = NoStackVar
    /\ invoke_fn = NoInvoke
    /\ log = {}
    /\ exc = NoExc

\* ------------------------------------------------------------------------
\* SpecLayout: append_layout_fields on drawn inputs

\* The bytes the memory images are drawn from: every opcode, with operands
\* 0, 1, 2 and 15 spread over them.
ByteSet ==
    {0, 5, 16, 19, 32, 33, 48, 50, 64, 66, 81, 97, 111, 112, 143, 255}

RECURSIVE SeqsUpTo(_, _)
\* The sequences over S of length at most n.
SeqsUpTo(S, n) ==
    IF n = 0 THEN {<<>>}
    ELSE LET shorter == SeqsUpTo(S, n - 1)
         IN shorter \cup {Append(q, b) : q \in {t \in shorter : Len(t) = n - 1}, b \in S}

Streams == SeqsUpTo(ByteSet, MaxStream)

\* The two call sites: annotate_literal passes bd.block_has_extended_layout,
\* a fresh byref_indexes list and the descriptor as layout_end_obj; the byref
\* code passes block_has_extended_layout=True and neither of the two.
CallSites ==
    [site : {"literal"}, ext : BOOLEAN] \cup [site : {"byref"}, ext : {TRUE}]

SiteStruct(site) == IF site = "literal" THEN LiteralHeader ELSE ByrefHeaderExtended

\* The step the sweep has reached, whether the block class symbol is found,
\* the candidates in the order the loop meets them, the number of them
\* handed to the annotation routine so far, and how each one ended.
SweepIdle ==
    sweep = [pc |-> "idle", symbol_found |-> FALSE, todo |-> <<>>, i |-> 0, outcomes |-> <<>>]

\* The byref stage is not entered.
StageIdle ==
    stage = [pc |-> "idle", insn_kind |-> "none", layout |-> 0, insns |-> <<>>,
             out |-> StageStart(LiteralHeader, <<>>)]

\* No command is running: the registry has no type of the plugin.
TasksIdle ==
    tasks = [defs |-> NoDefs, task |-> [t \in TaskIds |-> NoTask]]

\* No byref cell is processed.
ByrefIdle ==
    byref = [pc |-> "idle", flags |-> {}, flags_found |-> FALSE, size_found |-> FALSE,
             layout_src |-> NoLayoutSrc, mem |-> <<>>,
             struct |-> ByrefHeader, exc |-> "none", warned |-> FALSE]

\* from_stack is not called.
FromStackIdle ==
    fs = [pc |-> "idle", insns |-> <<>>, locals |-> NoLocals,
          out |-> [bl |-> NoLiteral, exc |-> NoExc]]

LayoutIdle ==
    /\ lay_pc = "idle"
    /\ lay_in = [site |-> "literal", ext |-> FALSE, layout |-> 0, mem |-> <<>>]
    /\ lay_out = DecodeStart(LiteralHeader, TRUE, <<>>)

InitLayout ==
    /\ SweepIdle
    /\ ByrefIdle
    /\ TasksIdle
    /\ StageIdle
    /\ PipelineIdle
    /\ FromStackIdle
    /\ lay_pc = "call"
    /\ \E c \in CallSites :
         /\ \/ \E v \in 0 .. CompactLimit - 1 :
                 lay_in = [site |-> c.site, ext |-> c.ext, layout |-> v, mem |-> <<>>]
            \/ \E m \in Streams, a \in MemBase .. MemBase + 1 :
                 lay_in = [site |-> c.site, ext |-> c.ext, layout |-> a, mem |-> m]
         /\ lay_out = DecodeStart(SiteStruct(c.site), c.site = "literal", <<>>)

\* The call returns, or raises.
CallAppendLayoutFields ==
    /\ lay_pc = "call"
    /\ LET r == AppendLayoutFields(lay_in.mem, SiteStruct(lay_in.site), lay_in.layout,
                                   lay_in.ext, lay_in.site = "literal", <<>>,
                                   lay_in.site = "literal")
       IN /\ lay_out' = r
          /\ lay_pc' = IF r.raised = "none" THEN "returned" ELSE "raised"
    /\ UNCHANGED lay_in
    /\ UNCHANGED <<pipelineVars, fs, sweep, byref, tasks, stage>>

NextLayout == CallAppendLayoutFields

SpecLayout == InitLayout /\ [][NextLayout]_vars

\* ------------------------------------------------------------------------
\* SpecFromStack: BlockLiteral.from_stack on drawn instruction streams

\* Most assignments to fields after the header that a drawn stream holds.
MaxExtra == 1

\* The five header assignments of a stack literal, in header order.
HeaderFive(flags) ==
    <<AssignIsa(BlockVarId), AssignFlags(BlockVarId, flags), AssignConst(BlockVarId, 2, 0),
      AssignConst(BlockVarId, 3, InvokeAddr), AssignConst(BlockVarId, 4, DescAddr)>>

\* The orders the five assignments can come in.
Orders == {p \in [1 .. 5 -> 1 .. 5] : \A i \in 1 .. 5, j \in 1 .. 5 : p[i] = p[j] => i = j}

\* Assignments to imported variables: a constant to field 5, the address
\* of a variable to field 6.
ExtraAssignments ==
    {AssignConst(BlockVarId, 5, 7),
     Insn("Assign", "StructField", "Var", TRUE, BlockVarId, 6, "AddressOf", "", 0, {})}

RECURSIVE WithExtras(_, _)
\* The streams of S with up to n extra assignments put in anywhere.
WithExtras(S, n) ==
    IF n = 0 THEN S
    ELSE LET T == WithExtras(S, n - 1)
         IN T \cup UNION {{InsertAt(s, p, x) : p \in 1 .. Len(s) + 1, x \in ExtraAssignments} :
                             s \in T}

ScanStreams ==
    WithExtras({[i \in 1 .. 5 |-> HeaderFive(f)[p[i]]] : f \in ScanFlagSets, p \in Orders},
               MaxExtra)

InitFromStack ==
    /\ SweepIdle
    /\ ByrefIdle
    /\ TasksIdle
    /\ StageIdle
    /\ LayoutIdle
    /\ PipelineIdle
    /\ \E s \in ScanStreams :
         fs = [pc |-> "call", insns |-> s, locals |-> NoLocals,
               out |-> [bl |-> NoLiteral, exc |-> NoExc]]

\* The call returns a literal, or raises.
CallFromStack ==
    /\ fs.pc = "call"
    /\ LET r == FromStack(LiteralAddr, "AssignStructField", fs.insns, BlockVarId)
       IN fs' = [pc |-> IF r.exc = NoExc THEN "returned" ELSE "raised",
                 insns |-> fs.insns,
                 locals |-> FromStackLoop(fs.insns, 1, BlockVarId, NoLocals),
                 out |-> r]
    /\ UNCHANGED <<layoutVars, pipelineVars, sweep, byref, tasks, stage>>

NextFromStack == CallFromStack

SpecFromStack == InitFromStack /\ [][NextFromStack]_vars

\* ------------------------------------------------------------------------
\* Spec: the processing of one candidate

Init ==
    /\ SweepIdle
    /\ ByrefIdle
    /\ TasksIdle
    /\ StageIdle
    /\ LayoutIdle
    /\ FromStackIdle
    /\ pc = "start"
    /\ cand \in Candidates
    /\ bl = NoLiteral
    /\ bd = NoDescriptor
    /\ types = NoTypes
    /\ comments = {}
    /\ data_vars = {}
    /\ stack_var = NoStackVar
    /\ invoke_fn = NoInvoke
    /\ log = {}
    /\ exc = NoExc

\* except Exception as e: print(...); return
Fail(e) ==
    /\ pc' = "failed"
    /\ exc' = e
    /\ log' = log \cup {"exception"}

\* The early returns of annotate_global_block_literal and
\* annotate_stack_block_literal: the candidate's isa is not the block class
\* symbol.
Reject ==
    /\ pc = "start"
    /\ ~cand.isa_ok
    /\ pc' = "rejected"
    /\ log' = log \cup {"rejected"}
    /\ UNCHANGED <<cand, bl, bd, types, comments, data_vars, stack_var, invoke_fn, exc>>
    /\ UNCHANGED harnessVars

\* bl = BlockLiteral.from_data(bv, block_literal_data_var)
LiteralFromData ==
    /\ pc = "start"
    /\ cand.isa_ok
    /\ ~cand.is_stack_block
    /\ LET r == FromData(cand.address, cand.image)
       IN /\ bl' = r.bl
          /\ IF r.exc = NoExc
             THEN pc' = "literal" /\ UNCHANGED <<exc, log>>
             ELSE Fail(r.exc)
    /\ UNCHANGED <<cand, bd, types, comments, data_vars, stack_var, invoke_fn>>
    /\ UNCHANGED harnessVars

\* bl = BlockLiteral.from_stack(bv, block_literal_insn, block_literal_var):
\* the variable gets the generic Block_literal type, then the function is
\* scanned.
LiteralFromStack ==
    /\ pc = "start"
    /\ cand.isa_ok
    /\ cand.is_stack_block
    /\ types' = GetLibclosureType(types, "Block_literal")
    /\ stack_var' = [stack_var EXCEPT !.type = PlainName("Block_literal")]
    /\ LET r == FromStack(cand.address, cand.insn_kind, cand.insns, BlockVarId)
       IN /\ bl' = r.bl
          /\ IF r.exc = NoExc
             THEN pc' = "literal" /\ UNCHANGED <<exc, log>>
             ELSE Fail(r.exc)
    /\ UNCHANGED <<cand, bd, comments, data_vars, invoke_fn>>
    /\ UNCHANGED harnessVars

\* bd = BlockDescriptor(bv, bl.descriptor, bl.flags)
NewBlockDescriptor ==
    /\ pc = "literal"
    /\ LET r == BlockDescriptorInit(bl.descriptor, bl.flags, cand.dimage, cand.sig_string)
       IN /\ bd' = r.bd
          /\ IF r.exc = NoExc
             THEN pc' = "descriptor" /\ UNCHANGED <<exc, log>>
             ELSE Fail(r.exc)
    /\ UNCHANGED <<cand, bl, types, comments, data_vars, stack_var, invoke_fn>>
    /\ UNCHANGED harnessVars

\* bl.annotate_literal(bd)
AnnotateLiteral ==
    /\ pc = "descriptor"
    /\ LET r == BuildLiteralStruct(bl, bd, types, cand.mem)
           name == HexName("Block_literal_", bl.address)
           named == [r.bl EXCEPT !.struct_name = name]
           decision == ApplyDecision(bl, cand.var_annotated)
           warn == IF r.warned THEN {"unknown_layout_op"} ELSE {}
       IN IF r.exc # NoExc
          THEN /\ bl' = r.bl
               /\ types' = r.types
               /\ pc' = "failed"
               /\ exc' = r.exc
               /\ log' = log \cup warn \cup {"exception"}
               /\ UNCHANGED <<bd, comments, data_vars, stack_var>>
          ELSE /\ bl' = named
               /\ bd' = r.bd
               /\ types' = DefineType(r.types, name, named.struct_builder)
               /\ IF decision = "raise"
                  THEN /\ pc' = "failed"
                       /\ exc' = Raised("RuntimeError", "annotate_literal")
                       /\ log' = log \cup warn \cup {"exception"}
                       /\ UNCHANGED <<comments, data_vars, stack_var>>
                  ELSE /\ pc' = "literal_annotated"
                       /\ log' = log \cup warn
                       /\ UNCHANGED exc
                       /\ IF decision = "return"
                          THEN /\ comments' = SetCommentAt(comments,
                                                 AlreadyAnnotatedComment(bl.address))
                               /\ UNCHANGED <<data_vars, stack_var>>
                          ELSE /\ comments' =
                                    IF SizeMismatch(named.struct_builder, r.bd)
                                    THEN SetCommentAt(comments,
                                           SizeMismatchComment(bl.address, r.bd.size,
                                                               named.struct_builder.width))
                                    ELSE comments
                               /\ IF bl.is_stack_block
                                  THEN /\ stack_var' = [renamed |-> TRUE, type |-> name]
                                       /\ UNCHANGED data_vars
                                  ELSE /\ data_vars' = RetypeDataVar(data_vars, bl.address, name,
                                                          HexName("global_block_", bl.address))
                                       /\ UNCHANGED stack_var
    /\ UNCHANGED <<cand, invoke_fn>>
    /\ UNCHANGED harnessVars

\* bd.annotate_descriptor(bl): the descriptor's structure is defined and
\* applied at the descriptor's address, and the literal's descriptor member
\* becomes a pointer to it.
AnnotateDescriptor ==
    /\ pc = "literal_annotated"
    /\ LET t == IF block_has_copy_dispose(bd)
                THEN GetLibclosureType(GetLibclosureType(types, "BlockCopyFunction"),
                                       "BlockDisposeFunction")
                ELSE types
           struct == DescriptorStruct(bd)
           name == HexName("Block_descriptor_", bd.address)
           t1 == DefineType(t, name, struct)
           pointer_index == IndexByName(bl.struct_builder, "descriptor")
           patched == StructReplace(bl.struct_builder, pointer_index, TypePointer(name),
                                    PlainName("descriptor"))
       IN /\ bd' = [bd EXCEPT !.has_struct = TRUE, !.struct_builder = struct,
                              !.struct_name = name]
          /\ data_vars' = MakeDataVar(data_vars, bd.address, name,
                                      HexName("block_descriptor_", bd.address))
          /\ bl' = [bl EXCEPT !.struct_builder = patched]
          /\ types' = DefineType(t1, bl.struct_name, patched)
    /\ pc' = "descriptor_annotated"
    /\ UNCHANGED <<cand, comments, stack_var, invoke_fn, log, exc>>
    /\ UNCHANGED harnessVars

\* Whether annotate_layout_bytecode makes the data variable of the bytecode.
HasLayoutBytecode(d) ==
    /\ block_has_signature(d)
    /\ block_has_extended_layout(d)
    /\ d.layout >= CompactLimit

\* bl.annotate_layout_bytecode(bd): reading bd.layout_end raises
\* AttributeError when the decoder never set it.
AnnotateLayoutBytecode ==
    /\ pc = "descriptor_annotated"
    /\ IF ~HasLayoutBytecode(bd)
       THEN /\ pc' = "bytecode_annotated"
            /\ UNCHANGED <<data_vars, log, exc>>
       ELSE IF bd.layout_end = Unset
       THEN /\ Fail(Raised("AttributeError", "annotate_layout_bytecode"))
            /\ UNCHANGED data_vars
       ELSE /\ pc' = "bytecode_annotated"
            /\ data_vars' = MakeDataVar(data_vars, bd.layout,
                                        HexName("uint8_t_", bd.layout_end - bd.layout),
                                        HexName("block_layout_", bd.layout))
            /\ UNCHANGED <<log, exc>>
    /\ UNCHANGED <<cand, bl, bd, types, comments, stack_var, invoke_fn>>
    /\ UNCHANGED harnessVars

\* Most types the signature translator is taken to yield.
MaxCtypes == 3

\* Most parameters the invoke function is taken to have.
MaxParams == 2

\* The outcomes of objctypes.ObjCEncodedTypes(signature_raw).ctypes: it
\* raises NotImplementedError, or yields a list of n C types.
Translations ==
    {[raised |-> TRUE, n_types |-> 0]} \cup {[raised |-> FALSE, n_types |-> n] : n \in 0 .. MaxCtypes}

\* The invoke part of annotate_functions for an existing invoke function
\* with n_params parameters, the translator ending as tr: the rung of the
\* ladder that types the function, or what is raised.
InvokeLadder(d, n_params, tr) ==
    IF d.signature_raw = Unset THEN [ladder |-> "none", exc |-> "AttributeError"]
    ELSE LET translated == d.signature_raw # None /\ ~tr.raised
         IN IF translated /\ tr.n_types = 0
            THEN [ladder |-> "none", exc |-> "AssertionError"]
            ELSE IF translated /\ tr.n_types = 1
            THEN [ladder |-> "none", exc |-> "IndexError"]
            ELSE IF translated THEN [ladder |-> "signature", exc |-> "none"]
            ELSE IF n_params = 0 THEN [ladder |-> "vararg", exc |-> "none"]
            ELSE [ladder |-> "surgical", exc |-> "none"]

\* bl.annotate_functions(bd), the last call of the try block: the view has
\* a function at bl.invoke or has none; the types of the copy and dispose
\* functions do not enter the state.
AnnotateFunctions ==
    /\ pc = "bytecode_annotated"
    /\ \/ /\ invoke_fn' = NoInvoke
          /\ pc' = "annotated"
          /\ UNCHANGED <<bl, types, log, exc>>
       \/ \E n_params \in 0 .. MaxParams, tr \in Translations :
            LET r == InvokeLadder(bd, n_params, tr)
                asked == bd.signature_raw \notin {Unset, None}
                fn == [exists |-> TRUE, n_params |-> n_params,
                       translation |-> IF ~asked THEN "none"
                                       ELSE IF tr.raised THEN "NotImplemented"
                                       ELSE "types",
                       n_types |-> IF asked THEN tr.n_types ELSE 0,
                       ladder |-> r.ladder]
                invoke_pointer_index == IndexByName(bl.struct_builder, "invoke")
                patched == StructReplace(bl.struct_builder, invoke_pointer_index,
                                         TypeNamed("function pointer"), PlainName("invoke"))
            IN /\ (~asked => tr = [raised |-> TRUE, n_types |-> 0])
               /\ invoke_fn' = fn
               /\ IF r.exc # "none"
                  THEN /\ Fail(Raised(r.exc, "annotate_functions"))
                       /\ UNCHANGED <<bl, types>>
                  ELSE /\ pc' = "annotated"
                       /\ UNCHANGED <<exc>>
                       /\ log' = IF asked /\ tr.raised
                                 THEN log \cup {"translation_failed"} ELSE log
                       /\ IF r.ladder = "surgical"
                          THEN UNCHANGED <<bl, types>>
                          ELSE /\ bl' = [bl EXCEPT !.struct_builder = patched]
                               /\ types' = DefineType(types, bl.struct_name, patched)
    /\ UNCHANGED <<cand, bd, comments, data_vars, stack_var>>
    /\ UNCHANGED harnessVars

Next ==
    \/ Reject
    \/ LiteralFromData
    \/ LiteralFromStack
    \/ NewBlockDescriptor
    \/ AnnotateLiteral
    \/ AnnotateDescriptor
    \/ AnnotateLayoutBytecode
    \/ AnnotateFunctions

Spec == Init /\ [][Next]_vars

\* ------------------------------------------------------------------------
\* SpecSweep: annotate_all_global_blocks and annotate_all_stack_blocks

\* Most candidates a sweep finds.
MaxSweep == 2

\* The flags word of the well-formed candidates of the sweeps.
SweepFlags == {BLOCK_HAS_SIGNATURE, BLOCK_HAS_EXTENDED_LAYOUT}

\* The global candidates of a sweep: one that is annotated, one turned
\* down for its isa, and one for each way the try block has been seen to
\* fail (AssertionError of either constructor, AttributeError, TypeError).
SweepGlobals ==
    LET f == SweepFlags \cup {BLOCK_IS_GLOBAL}
    IN {GlobalCandidate(TRUE, f, InvokeAddr, DescAddr, DescriptorChoice(f, 48, SigAddr, 16, TRUE)),
        GlobalCandidate(FALSE, f, InvokeAddr, DescAddr, PlainDescriptor(f)),
        GlobalCandidate(TRUE, f, 0, DescAddr, PlainDescriptor(f)),
        GlobalCandidate(TRUE, f, InvokeAddr, DescAddr, DescriptorChoice(f, 24, 0, 0, FALSE)),
        GlobalCandidate(TRUE, {BLOCK_IS_GLOBAL}, InvokeAddr, DescAddr, PlainDescriptor({BLOCK_IS_GLOBAL})),
        GlobalCandidate(TRUE, f, InvokeAddr, DescAddr,
                        DescriptorChoice(f, 48, 0, MemBase + Len(PipeImage) - 1, FALSE))}

\* The stack candidates of a sweep: one that is annotated, one turned down,
\* and one for each way from_stack and annotate_literal have been seen to
\* fail (UnboundLocalError, NotImplementedError, RuntimeError).
SweepStacks ==
    LET f == SweepFlags
        d == DescriptorChoice(f, 48, SigAddr, 16, TRUE)
        base == HeaderAssignments(f, InvokeAddr, DescAddr, TRUE)
    IN {StackCandidate(TRUE, base, "VarDeclare", FALSE, d),
        StackCandidate(FALSE, base, "VarDeclare", FALSE, d),
        StackCandidate(TRUE, HeaderAssignments(f, InvokeAddr, DescAddr, FALSE), "VarDeclare", FALSE, d),
        StackCandidate(TRUE, InsertAt(base, 1, AssignThroughDeref), "AssignStructField", FALSE, d),
        StackCandidate(TRUE, base, "VarInit", FALSE, d)}

\* The lists of candidates a sweep can find.
SweepLists == UNION {SeqsUpTo(S, MaxSweep) : S \in {SweepGlobals, SweepStacks}}

InitSweep ==
    /\ ByrefIdle
    /\ TasksIdle
    /\ StageIdle
    /\ LayoutIdle
    /\ FromStackIdle
    /\ PipelineIdle
    /\ \E found \in BOOLEAN, todo \in SweepLists :
         sweep = [pc |-> "lookup", symbol_found |-> found, todo |-> todo, i |-> 0,
                  outcomes |-> <<>>]

\* The sweep returns at once when the block class symbol is not found.
SweepLookup ==
    /\ sweep.pc = "lookup"
    /\ sweep' = [sweep EXCEPT !.pc = IF sweep.symbol_found THEN "loop" ELSE "done"]
    /\ log' = IF sweep.symbol_found THEN log ELSE log \cup {"symbol_not_found"}
    /\ UNCHANGED <<pc, cand, bl, bd, types, comments, data_vars, stack_var, invoke_fn, exc>>
    /\ UNCHANGED <<layoutVars, fs, byref, tasks, stage>>

\* Mutant: an exception leaves the annotation routine and the loop.
CandidateDone_UnlessFailed == pc \in {"idle", "rejected", "annotated"}

\* The annotation routine of the candidate in hand has returned.
CandidateDone == pc \in {"idle", "rejected", "failed", "annotated"}

\* The loop takes the next candidate and calls its annotation routine; the
\* objects of the routine are new, the view is as the earlier calls left it.
SweepHandOver ==
    /\ sweep.pc = "loop"
    /\ CandidateDone
    /\ sweep.i < Len(sweep.todo)
    /\ sweep' = [sweep EXCEPT !.i = @ + 1,
                              !.outcomes = IF sweep.i = 0 THEN @ ELSE Append(@, pc)]
    /\ cand' = [sweep.todo[sweep.i + 1] EXCEPT !.address = LiteralAddr + 64 * sweep.i]
    /\ pc' = "start"
    /\ bl' = NoLiteral
    /\ bd' = NoDescriptor
    /\ stack_var' = NoStackVar
    /\ invoke_fn' = NoInvoke
    /\ exc' = NoExc
    /\ UNCHANGED <<types, comments, data_vars, log>>
    /\ UNCHANGED <<layoutVars, fs, byref, tasks, stage>>

\* The loop is over after the last candidate's routine has returned.
SweepEnd ==
    /\ sweep.pc = "loop"
    /\ CandidateDone
    /\ sweep.i = Len(sweep.todo)
    /\ sweep' = [sweep EXCEPT !.pc = "done",
                              !.outcomes = IF sweep.i = 0 THEN @ ELSE Append(@, pc)]
    /\ UNCHANGED pipelineVars
    /\ UNCHANGED <<layoutVars, fs, byref, tasks, stage>>

\* The steps of the annotation routine of the candidate in hand.
CandidateStep ==
    /\ sweep.pc = "loop"
    /\ Next

NextSweep ==
    \/ SweepLookup
    \/ SweepHandOver
    \/ SweepEnd
    \/ CandidateStep

SpecSweep == InitSweep /\ [][NextSweep]_vars

\* The plugin runs a sweep on one thread, each step following the one
\* before it: a step that can be taken is taken.
SpecSweepFair == SpecSweep /\ WF_vars(NextSweep)


\* ------------------------------------------------------------------------
\* SpecByref: the structure of the first byref cell of a stack literal

\* The bytes the nested bytecode is drawn from: a run of one and of three
\* bytes, one word, one pointer of each kind, the terminator and an
\* unknown opcode.
ByrefByteSet == {0, 17, 19, 33, 49, 65, 81, 97, 112}

ByrefStreams == SeqsUpTo(ByrefByteSet, MaxStream)

\* The compact values assigned to the layout member.
ByrefCompactValues == {0, 1, 16, 256, 273, 4095}

\* The flags words assigned to the flags member.
ByrefFlagSets == SUBSET ({BLOCK_BYREF_HAS_COPY_DISPOSE} \cup BLOCK_BYREF_LAYOUT_MASK)

\* The scans run for a cell whose flags and size were found: the one for
\* the layout member is run for the extended kind only.
ByrefLayoutInputs(byref_flags) ==
    IF byref_flags \cap BLOCK_BYREF_LAYOUT_MASK # BLOCK_BYREF_LAYOUT_EXTENDED
    THEN {[layout_src |-> NoLayoutSrc, mem |-> <<>>]}
    ELSE {[layout_src |-> NoLayoutSrc, mem |-> <<>>],
          [layout_src |-> LayoutSrc(FALSE, 0), mem |-> <<>>]}
         \cup {[layout_src |-> LayoutSrc(TRUE, v), mem |-> <<>>] : v \in ByrefCompactValues}
         \cup {[layout_src |-> LayoutSrc(TRUE, a), mem |-> m] :
                  a \in MemBase .. MemBase + 1, m \in ByrefStreams}

InitByref ==
    /\ TasksIdle
    /\ StageIdle
    /\ SweepIdle
    /\ LayoutIdle
    /\ FromStackIdle
    /\ PipelineIdle
    /\ \E f \in ByrefFlagSets, ff \in BOOLEAN, sf \in BOOLEAN :
         \E in \in ByrefLayoutInputs(IF ff /\ sf THEN f ELSE {}) :
           /\ (~ff => f = {})
           /\ byref = [pc |-> "typed", flags |-> f, flags_found |-> ff, size_found |-> sf,
                       layout_src |-> in.layout_src, mem |-> in.mem,
                       struct |-> ByrefHeader, exc |-> "none", warned |-> FALSE]

\* From the scan for flags and size to the registration of the structure:
\* the cell is passed over when flags or size is not bound, the stage ends
\* when the chain raises, and else the structure is registered with its
\* forwarding member pointing to it.
AnnotateByref ==
    /\ byref.pc = "typed"
    /\ LET r == ByrefStruct(byref.mem, byref.flags, byref.layout_src)
       IN byref' = IF ~(byref.flags_found /\ byref.size_found)
                   THEN [byref EXCEPT !.pc = "skipped"]
                   ELSE IF r.exc # "none"
                   THEN [byref EXCEPT !.pc = "failed", !.struct = r.struct, !.exc = r.exc]
                   ELSE [byref EXCEPT !.pc = "defined", !.warned = r.warned,
                                      !.struct = ByrefForwardingLinked(r.struct)]
    /\ UNCHANGED <<layoutVars, pipelineVars, fs, sweep, tasks, stage>>

NextByref == AnnotateByref

SpecByref == InitByref /\ [][NextByref]_vars

\* ------------------------------------------------------------------------
\* SpecByrefStage: the byref stage of a stack literal on drawn assignments

\* Most assignments to byref slots in the function.
MaxAssign == 3

\* The compact layouts of the literals: one strong pointer and two byref
\* pointers, and one strong pointer only.
StageLayouts == {288, 256}

\* The literal's structure and byref_indexes as annotate_literal leaves
\* them for a compact layout.
StageLiteral(layout) ==
    LET d == AppendLayoutFields(<<>>, LiteralHeader, layout, TRUE, TRUE, <<>>, TRUE)
    IN StageStart(d.struct, d.byref_indexes)

ByrefSources ==
    {ByrefSrc("AddressOfVar", c) : c \in ByrefCells}
        \cup {ByrefSrc(k, 0) : k \in {"AddressOf", "Listed", "Unrecognized"}}

\* The assignments to byref slots the function can hold.
StageAssignments(byref_indexes) ==
    {ByrefAssign(byref_indexes[i], src) : i \in 1 .. Len(byref_indexes), src \in ByrefSources}

InitByrefStage ==
    /\ TasksIdle
    /\ SweepIdle
    /\ ByrefIdle
    /\ LayoutIdle
    /\ FromStackIdle
    /\ PipelineIdle
    /\ \E layout \in StageLayouts, kind \in {"VarDeclare", "AssignStructField"} :
         \E insns \in SeqsUpTo(StageAssignments(StageLiteral(layout).byref_indexes), MaxAssign) :
           stage = [pc |-> "annotated", insn_kind |-> kind, layout |-> layout,
                    insns |-> insns, out |-> StageLiteral(layout)]

\* The second try block of annotate_stack_block_literal, from its first
\* statement to the return.
AnnotateByrefs ==
    /\ stage.pc = "annotated"
    /\ LET r == ByrefStage(stage.out, stage.insn_kind, stage.insns)
       IN stage' = [stage EXCEPT !.pc = IF r.exc = "none" THEN "done" ELSE "failed",
                                 !.out = r]
    /\ UNCHANGED <<layoutVars, pipelineVars, fs, sweep, byref, tasks>>

NextByrefStage == AnnotateByrefs

SpecByrefStage == InitByrefStage /\ [][NextByrefStage]_vars

\* ------------------------------------------------------------------------
\* SpecTasks: two commands started together, each on its own thread

\* What the registry holds when the commands start: nothing of the plugin,
\* the Objective-C types (the view loaded them), or both sources.
StartRegistries ==
    {NoDefs,
     DefineNames(NoDefs, {PlainName(n) : n \in ObjcTypeNames}),
     DefineNames(NoDefs, {PlainName(n) : n \in ObjcTypeNames \cup LibclosureTypeNames})}

\* Task.spawn for each command: the two tasks annotate literals at the
\* same address or at two addresses.
InitTasks ==
    /\ StageIdle
    /\ SweepIdle
    /\ ByrefIdle
    /\ LayoutIdle
    /\ FromStackIdle
    /\ PipelineIdle
    /\ \E r \in StartRegistries, a \in {LiteralAddr, LiteralAddr + 64} :
         tasks = [defs |-> r,
                  task |-> [t \in TaskIds |->
                              [call |-> 1, step |-> "check",
                               address |-> IF t = 1 THEN LiteralAddr ELSE a]]]

\* type_ = bv.get_type_by_name(name); if type_ is not None: return type_
TaskCheck(t) ==
    /\ tasks.task[t].step = "check"
    /\ LET c == RegistryCalls[tasks.task[t].call]
       IN tasks' = [tasks EXCEPT !.task[t] =
                       IF PlainName(c.name) \in DOMAIN tasks.defs
                       THEN NextCall(@) ELSE [@ EXCEPT !.step = "parse"]]

\* types = bv.parse_types_from_string(source): local to the task.
TaskParse(t) ==
    /\ tasks.task[t].step = "parse"
    /\ tasks' = [tasks EXCEPT !.task[t].step = "define_types"]

\* bv.define_types([...], None): every type of the source is defined.
TaskDefineTypes(t) ==
    /\ tasks.task[t].step = "define_types"
    /\ LET c == RegistryCalls[tasks.task[t].call]
       IN tasks' = [tasks EXCEPT
                       !.defs = DefineNames(@, {PlainName(n) : n \in SourceNames(c.source)}),
                       !.task[t].step = "recheck"]

\* type_ = bv.get_type_by_name(name); assert type_ is not None; return
TaskRecheck(t) ==
    /\ tasks.task[t].step = "recheck"
    /\ tasks' = [tasks EXCEPT !.task[t] = NextCall(@)]

\* bv.define_type(id, self.struct_name, self.struct_builder)
TaskDefineType(t) ==
    /\ tasks.task[t].step = "define_type"
    /\ tasks' = [tasks EXCEPT
                    !.defs = DefineNames(@, {HexName("Block_literal_", tasks.task[t].address)}),
                    !.task[t] = NextCall(@)]

\* The threads run with no lock of the plugin between them: any task that
\* has a step to take may take it.
NextTasks ==
    \E t \in TaskIds :
        /\ \/ TaskCheck(t)
           \/ TaskParse(t)
           \/ TaskDefineTypes(t)
           \/ TaskRecheck(t)
           \/ TaskDefineType(t)
        /\ UNCHANGED <<layoutVars, pipelineVars, fs, sweep, byref, stage>>

SpecTasks == InitTasks /\ [][NextTasks]_vars

LayoutCalled == lay_pc \in {"returned", "raised"}

\* The members the call appended to the caller's structure.
LayNewMembers ==
    SubSeq(lay_out.struct.members, Len(SiteStruct(lay_in.site).members) + 1,
           Len(lay_out.struct.members))

\* A slot as the claims speak of it: its kind (the prefix of the member's
\* name), the type of the member and its width in bytes.
SlotOf(m) == [kind |-> m.name.prefix, type |-> m.type.kind, width |-> m.type.width]

LayNewSlots == [i \in 1 .. Len(LayNewMembers) |-> SlotOf(LayNewMembers[i])]

PointerSlot(kind) == [kind |-> kind, type |-> "id", width |-> PointerWidth]

\* n copies of x.
Repeat(x, n) == [i \in 1 .. n |-> x]

CountKind(slots, kind) == Cardinality({i \in 1 .. Len(slots) : slots[i].kind = kind})

\* Strong before byref before weak.
CompactRank(kind) ==
    IF kind = "strong_ptr_" THEN 1 ELSE IF kind = "byref_ptr_" THEN 2
    ELSE IF kind = "weak_ptr_" THEN 3 ELSE 0

CompactOrdered(slots) ==
    /\ \A i \in 1 .. Len(slots) : CompactRank(slots[i].kind) > 0
    /\ \A i \in 1 .. Len(slots), j \in 1 .. Len(slots) :
         i < j => CompactRank(slots[i].kind) <= CompactRank(slots[j].kind)

LayCompactCase ==
    /\ LayoutCalled
    /\ lay_in.ext
    /\ lay_in.layout > 0
    /\ lay_in.layout < CompactLimit

\* C1: for every layout value v with 0 < v < 0x1000 and the extended flag
\* set, the call returns having appended exactly
\* ((v>>8)&0xf) + ((v>>4)&0xf) + (v&0xf) pointer slots, the strong ones
\* first, then the byref ones, then the weak ones, and has stored no
\* layout_end.
C1_CompactSlots ==
    LayCompactCase =>
        LET v == lay_in.layout
        IN /\ lay_pc = "returned"
           /\ Len(LayNewSlots) = ((v \div 256) % 16) + ((v \div 16) % 16) + (v % 16)
           /\ CompactOrdered(LayNewSlots)
           /\ \A i \in 1 .. Len(LayNewSlots) :
                LayNewSlots[i] = PointerSlot(LayNewSlots[i].kind)
           /\ lay_out.layout_end = Unset

\* A compact value with all three counts non-zero has been decoded (0x213).
C1_Witness ==
    /\ LayCompactCase
    /\ lay_in.layout = 531
    /\ Len(LayNewSlots) = 6

\* The slots one bytecode byte stands for, as the format defines them.
ExpectedOfByte(b) ==
    LET k == b \div 16
        n == b % 16
    IN IF k = 1 THEN <<[kind |-> "non_object_", type |-> "uint8_t[]", width |-> n]>>
       ELSE IF k = 2
       THEN Repeat([kind |-> "non_object_", type |-> "uint64_t", width |-> PointerWidth], n)
       ELSE IF k = 3 THEN Repeat(PointerSlot("strong_ptr_"), n)
       ELSE IF k = 4 THEN Repeat(PointerSlot("byref_ptr_"), n)
       ELSE IF k = 5 THEN Repeat(PointerSlot("weak_ptr_"), n)
       ELSE IF k = 6 THEN Repeat(PointerSlot("unretained_ptr_"), n)
       ELSE <<>>

RECURSIVE ExpectedOfBytes(_)
\* The slots a sequence of bytes stands for, in stream order.
ExpectedOfBytes(bytes) ==
    IF bytes = <<>> THEN <<>>
    ELSE ExpectedOfByte(Head(bytes)) \o ExpectedOfBytes(Tail(bytes))

\* The mapped bytes from the address layout on.
StreamAt(mem, layout) ==
    IF Mapped(mem, layout) THEN SubSeq(mem, layout - MemBase + 1, Len(mem)) ELSE <<>>

\* The position in s of the first byte whose high nibble is outside 1..6,
\* or Len(s) + 1 when it has none.
FirstStop(s) ==
    LET stops == {i \in 1 .. Len(s) : (s[i] \div 16) \notin 1 .. 6}
    IN IF stops = {} THEN Len(s) + 1
       ELSE CHOOSE i \in stops : \A j \in stops : i <= j

LayBytecodeCase ==
    /\ LayoutCalled
    /\ lay_in.ext
    /\ lay_in.layout >= CompactLimit

\* C2: in bytecode form the appended slots are, in stream order, what the
\* bytes up to the first byte with a high nibble outside 1..6 stand for: one
\* NonObjectBytes run of n bytes for 1, n NonObjectWords for 2, n strong,
\* byref, weak, unretained pointers for 3, 4, 5, 6, and nothing for 0.
C2_BytecodeSlots ==
    LayBytecodeCase =>
        LET s == StreamAt(lay_in.mem, lay_in.layout)
            stop == FirstStop(s)
        IN LayNewSlots = ExpectedOfBytes(SubSeq(s, 1, stop - 1))

\* A stream with a three-byte NonObjectBytes run, two strong pointers and
\* the terminator has been decoded.
C2_Witness ==
    /\ LayBytecodeCase
    /\ lay_pc = "returned"
    /\ lay_in.layout = MemBase
    /\ lay_in.mem = <<19, 50, 0>>
    /\ Len(LayNewSlots) = 3

\* C3: when the first byte of the stream with a high nibble outside 1..6 is
\* an ESCAPE byte, the decoder reads the bytes up to and including it, one
\* after the other, and none after it; the reader ends just after it, and
\* that address is the layout_end stored for a caller that passed a
\* layout_end_obj.
C3_EscapeEnd ==
    LayBytecodeCase =>
        LET s == StreamAt(lay_in.mem, lay_in.layout)
            stop == FirstStop(s)
        IN (stop <= Len(s) /\ s[stop] \div 16 = BLOCK_LAYOUT_ESCAPE) =>
             /\ lay_pc = "returned"
             /\ lay_out.reads = [i \in 1 .. stop |-> lay_in.layout + i - 1]
             /\ lay_out.offset = lay_in.layout + stop
             /\ lay_in.site = "literal" => lay_out.layout_end = lay_in.layout + stop

\* A stream with a byte after its terminator has been decoded for a literal.
C3_Witness ==
    /\ LayBytecodeCase
    /\ lay_in.site = "literal"
    /\ lay_in.layout = MemBase
    /\ lay_in.mem = <<50, 0, 50>>
    /\ lay_out.layout_end = MemBase + 2

LayNoDecodeCase ==
    /\ LayoutCalled
    /\ (lay_in.layout = 0 \/ ~lay_in.ext)

\* C5: with layout 0, and with the extended-layout flag clear whatever the
\* layout, the call returns without raising and has appended no member,
\* read no byte, recorded no byref index and stored no layout_end.
C5_NoDecode ==
    LayNoDecodeCase =>
        /\ lay_pc = "returned"
        /\ lay_out.struct = SiteStruct(lay_in.site)
        /\ lay_out.reads = <<>>
        /\ lay_out.byref_indexes = <<>>
        /\ lay_out.layout_end = Unset
        /\ ~lay_out.warned

\* The call was made with the flag clear and a layout that points to a
\* stream holding a byref opcode.
C5_Witness ==
    /\ LayNoDecodeCase
    /\ ~lay_in.ext
    /\ lay_in.layout = MemBase
    /\ lay_in.mem = <<66, 0>>

\* encode: the compact value of a slot list of strong, byref and weak slots.
CompactEncode(slots) ==
    CountKind(slots, "strong_ptr_") * 256 + CountKind(slots, "byref_ptr_") * 16
        + CountKind(slots, "weak_ptr_")

\* The slot list of s strong, then b byref, then w weak pointers.
CompactSlotList(s, b, w) ==
    Repeat(PointerSlot("strong_ptr_"), s) \o Repeat(PointerSlot("byref_ptr_"), b)
        \o Repeat(PointerSlot("weak_ptr_"), w)

\* C6: round trip of the compact form.  The decoded slot list is the list of
\* s strong, b byref and w weak slots (s, b, w in 0..15) whose encoding
\* (s<<8)|(b<<4)|w is the layout value that was decoded.
C6_CompactRoundTrip ==
    (LayoutCalled /\ lay_in.ext /\ lay_in.layout < CompactLimit) =>
        LET s == CountKind(LayNewSlots, "strong_ptr_")
            b == CountKind(LayNewSlots, "byref_ptr_")
            w == CountKind(LayNewSlots, "weak_ptr_")
        IN /\ s \in 0 .. 15 /\ b \in 0 .. 15 /\ w \in 0 .. 15
           /\ LayNewSlots = CompactSlotList(s, b, w)
           /\ CompactEncode(LayNewSlots) = lay_in.layout

\* The value with all three counts 15 (0xfff) has been decoded to 45 slots.
C6_Witness ==
    /\ LayoutCalled
    /\ lay_in.ext
    /\ lay_in.layout = CompactLimit - 1
    /\ LayNewSlots = CompactSlotList(15, 15, 15)

\* ------------------------------------------------------------------------
\* Reading the processing of a candidate in Spec

\* annotate_literal has acted on the candidate's descriptor.
LiteralActed == bd.constructed /\ pc # "descriptor"

\* The members annotate_literal appended after the five header members.
ImportedMembers ==
    IF bl.has_struct
    THEN SubSeq(bl.struct_builder.members, Len(LiteralHeader.members) + 1,
                Len(bl.struct_builder.members))
    ELSE <<>>

ImportedSlots == [i \in 1 .. Len(ImportedMembers) |-> SlotOf(ImportedMembers[i])]

RECURSIVE SumWidths(_)
\* The sum of the byte widths of a slot list.
SumWidths(slots) ==
    IF slots = <<>> THEN 0 ELSE Head(slots).width + SumWidths(Tail(slots))

\* annotate_literal decodes the descriptor's layout as bytecode.
PipeBytecodeCase ==
    /\ LiteralActed
    /\ imported_variables_size(bd) > 0
    /\ block_has_signature(bd)
    /\ block_has_extended_layout(bd)
    /\ bd.layout >= CompactLimit

\* The bytecode holds a byte with high nibble 7..15 before any terminator.
PipeUnknownOpcodeCase ==
    /\ PipeBytecodeCase
    /\ LET s == StreamAt(cand.mem, bd.layout)
       IN FirstStop(s) <= Len(s) /\ s[FirstStop(s)] \div 16 \in 7 .. 15

\* The failures of an instance that no byte of the layout takes part in:
\* the reloaded instruction of a stack literal is one annotate_literal does
\* not handle, or the translated signature has fewer than two types.
FailureOutsideLayout ==
    \/ exc = Raised("RuntimeError", "annotate_literal")
    \/ exc = Raised("AssertionError", "annotate_functions")
    \/ exc = Raised("IndexError", "annotate_functions")

MemberNames(struct) == {struct.members[i].name : i \in 1 .. Len(struct.members)}

\* C7: a constructed BlockDescriptor has read reserved and size at offsets 0
\* and 8; it has read copy and dispose, at the next two offsets, exactly
\* when HAS_COPY_DISPOSE is in the owning literal's flags, and signature and
\* layout, at the two offsets directly after whatever was read before,
\* exactly when HAS_SIGNATURE is in them, and nothing else; with
\* HAS_COPY_DISPOSE clear copy and dispose are None, and the descriptor's
\* structure has the members copy and dispose exactly when the flag is set.
C7_DescriptorReads ==
    bd.constructed =>
        LET cd == BLOCK_HAS_COPY_DISPOSE \in bl.flags
            sg == BLOCK_HAS_SIGNATURE \in bl.flags
            n == 2 + (IF cd THEN 2 ELSE 0) + (IF sg THEN 2 ELSE 0)
            sig_off == IF cd THEN 32 ELSE 16
        IN /\ bd.reads = [i \in 1 .. n |-> 8 * (i - 1)]
           /\ bd.reserved = Read64(cand.dimage, 0)
           /\ bd.size = Read64(cand.dimage, 8)
           /\ IF cd
              THEN bd.copy = Read64(cand.dimage, 16) /\ bd.dispose = Read64(cand.dimage, 24)
              ELSE bd.copy = None /\ bd.dispose = None
           /\ IF sg
              THEN /\ bd.signature = Read64(cand.dimage, sig_off)
                   /\ bd.layout = Read64(cand.dimage, sig_off + 8)
              ELSE bd.signature = Unset /\ bd.layout = Unset
           /\ bd.has_struct =>
                /\ PlainName("copy") \in MemberNames(bd.struct_builder) <=> cd
                /\ PlainName("dispose") \in MemberNames(bd.struct_builder) <=> cd
                /\ PlainName("signature") \in MemberNames(bd.struct_builder) <=> sg
                /\ Len(bd.struct_builder.members) = n

\* A descriptor with a signature and no copy and dispose helpers has been
\* read (signature and layout at offsets 16 and 24) and annotated.
C7_Witness ==
    /\ bd.constructed
    /\ bd.has_struct
    /\ BLOCK_HAS_COPY_DISPOSE \notin bl.flags
    /\ bd.reads = <<0, 8, 16, 24>>
    /\ bd.signature = SigAddr
    /\ bd.layout = 273

\* The descriptor of a constructed literal has been read and its size word
\* is below 32.
SizeBelowHeaderCase ==
    /\ bl.constructed
    /\ pc # "literal"
    /\ Read64(cand.dimage, 8) # None
    /\ Read64(cand.dimage, 8) < HeaderSize

\* The structure types defined for the instance.
InstanceTypeNames == {n \in DOMAIN types : n.prefix \in {"Block_literal_", "Block_descriptor_"}}

\* C8: a descriptor whose size word is below 32 makes the construction of
\* the descriptor fail with only reserved and size read; the exception is
\* caught when it leaves the instance's processing, which ends there: no
\* literal or descriptor structure type is defined for the instance, and no
\* data variable, comment or stack variable is changed by its annotation
\* steps.
C8_SizeBelowHeader ==
    SizeBelowHeaderCase =>
        /\ pc = "failed"
        /\ exc = Raised("AssertionError", "BlockDescriptor")
        /\ "exception" \in log
        /\ ~bd.constructed
        /\ bd.reads = <<0, 8>>
        /\ InstanceTypeNames = {}
        /\ data_vars = {}
        /\ comments = {}
        /\ ~stack_var.renamed
        /\ invoke_fn = NoInvoke

\* A global candidate with copy and dispose helpers, a signature and size
\* 24 has failed.
C8_Witness ==
    /\ SizeBelowHeaderCase
    /\ ~cand.is_stack_block
    /\ cand.dimage = <<0, 24, CopyAddr, DisposeAddr, SigAddr, 273>>
    /\ pc = "failed"

\* The header values of the candidate as its memory image or its field
\* assignments give them.
CandidateField(k) ==
    IF ~cand.is_stack_block
    THEN IF k = 3 THEN cand.image.invoke ELSE cand.image.descriptor
    ELSE LET a == {i \in 1 .. Len(cand.insns) : cand.insns[i].member_index = k}
         IN cand.insns[CHOOSE i \in a : TRUE].constant

CandidateFlags ==
    IF ~cand.is_stack_block THEN cand.image.flags
    ELSE LET a == {i \in 1 .. Len(cand.insns) : cand.insns[i].member_index = 1}
         IN cand.insns[CHOOSE i \in a : TRUE].bits

\* The candidate's header meets the invariants of a literal of its kind.
CandidateHeaderOk ==
    /\ CandidateField(3) # 0
    /\ CandidateField(4) # 0
    /\ (BLOCK_IS_GLOBAL \in CandidateFlags) <=> ~cand.is_stack_block

\* C9: every constructed BlockLiteral has invoke and descriptor other than
\* 0 and has IS_GLOBAL in its flags exactly when it was built from data
\* rather than from the field assignments of a stack variable; and a
\* candidate whose header breaks one of these ends with AssertionError and
\* no literal.
C9_LiteralInvariants ==
    /\ bl.constructed =>
         /\ bl.invoke # 0
         /\ bl.descriptor # 0
         /\ (BLOCK_IS_GLOBAL \in bl.flags) <=> ~bl.is_stack_block
         /\ bl.is_stack_block = cand.is_stack_block
         /\ CandidateHeaderOk
    /\ (pc \notin {"idle", "start", "rejected"} /\ ~CandidateHeaderOk) =>
         /\ ~bl.constructed
         /\ pc = "failed"
         /\ exc.type \in {"AssertionError", "UnboundLocalError", "RuntimeError"}
         /\ exc.stage \in {"BlockLiteral", "from_stack"}

\* A stack literal has been constructed from field assignments that give
\* it a copy helper flag and no IS_GLOBAL flag.
C9_Witness ==
    /\ bl.constructed
    /\ bl.is_stack_block
    /\ bl.flags = {BLOCK_HAS_COPY_DISPOSE}
    /\ bl.invoke = InvokeAddr
    /\ pc = "literal"

\* C10 as stated: when the annotation of an instance has completed, the
\* byte widths of the slots decoded from its layout sum to at most
\* size - 32, or else a size mismatch comment has been attached.  The code
\* attaches the comment only when the structure is narrower than size.
C10_LayoutWithinSize ==
    (pc = "annotated" /\ bl.has_struct) =>
        \/ SumWidths(ImportedSlots) <= imported_variables_size(bd)
        \/ \E c \in comments : c.kind = "size_mismatch"

\* annotate_literal has run to its end: it neither raised nor took the
\* early return for a stack variable that carries another literal's type.
LiteralApplied ==
    /\ LiteralActed
    /\ bl.has_struct
    /\ bl.struct_name = HexName("Block_literal_", bl.address)
    /\ ApplyDecision(bl, cand.var_annotated) = "apply"

\* The size mismatch comments of the view.
SizeComments == {c \in comments : c.kind = "size_mismatch"}

\* The structure of the literal is applied to the data variable of a global
\* literal or to the stack variable of a stack literal.
LiteralTypeApplied ==
    IF bl.is_stack_block
    THEN stack_var = [renamed |-> TRUE, type |-> bl.struct_name]
    ELSE \E v \in data_vars : v.address = bl.address /\ v.type = bl.struct_name

C11_ExactFit ==
    /\ LiteralApplied
    /\ bd.size = 56
    /\ bd.layout = 273
    /\ comments = {}

\* A global literal with only IS_GLOBAL in its flags and a descriptor of
\* size 0x28, on which annotate_literal has acted.
GlobalNoSignatureCase ==
    /\ LiteralActed
    /\ ~bl.is_stack_block
    /\ bl.flags = {BLOCK_IS_GLOBAL}
    /\ bd.size = 40

\* C12 as stated: the literal of GlobalNoSignatureCase gets a structure with
\* only the five header members, imported_variables_size is 8, and the size
\* mismatch comment for 8 missing bytes is at the literal's address.  In
\* the code annotate_literal reads bd.layout, which BlockDescriptor.__init__
\* assigns only under HAS_SIGNATURE, and ends with AttributeError.
C12_GlobalNoSignature ==
    GlobalNoSignatureCase =>
        /\ imported_variables_size(bd) = 8
        /\ bl.has_struct
        /\ bl.struct_builder.members = LiteralHeader.members
        /\ HexName("Block_literal_", bl.address) \in DOMAIN types
        /\ SizeMismatchComment(bl.address, 40, 32) \in comments

\* What the code does for that literal: the instance ends in
\* annotate_literal with AttributeError, no structure, type or comment.
C12_AttributeError ==
    GlobalNoSignatureCase =>
        /\ imported_variables_size(bd) = 8
        /\ pc = "failed"
        /\ exc = Raised("AttributeError", "annotate_literal")
        /\ ~bl.has_struct
        /\ InstanceTypeNames = {}
        /\ comments = {}

\* from_stack has been called for the stream that assigns invoke, flags
\* (HAS_COPY_DISPOSE only), descriptor and isa, and never reserved.
NoReservedCase ==
    /\ pc \notin {"idle", "start", "rejected"}
    /\ cand.is_stack_block
    /\ cand.insn_kind \in {"VarDeclare", "VarInit", "AssignStructField"}
    /\ cand.insns = HeaderAssignments({BLOCK_HAS_COPY_DISPOSE}, InvokeAddr, DescAddr, FALSE)

\* C13 as stated: that stream is resolved into a stack literal carrying the
\* assigned invoke, flags and descriptor.  In the code the local reserved
\* is bound only by an assignment to field 2, and the call of the
\* constructor at the end of from_stack reads it.
C13_NoReservedResolved ==
    NoReservedCase =>
        /\ bl.constructed
        /\ bl.is_stack_block
        /\ bl.invoke = InvokeAddr
        /\ bl.flags = {BLOCK_HAS_COPY_DISPOSE}
        /\ bl.descriptor = DescAddr

\* What the code does for that stream: UnboundLocalError, no literal.
C13_UnboundLocal ==
    NoReservedCase =>
        /\ pc = "failed"
        /\ exc = Raised("UnboundLocalError", "from_stack")
        /\ ~bl.constructed

\* ------------------------------------------------------------------------
\* Reading the result of a call in SpecFromStack

FromStackCalled == fs.pc \in {"returned", "raised"}

\* The positions of the stream that assign a header field.
HeaderPositions(insns) == {i \in 1 .. Len(insns) : insns[i].member_index <= 4}

\* The position of the last assignment to a header field.
LastHeaderPosition(insns) ==
    CHOOSE i \in HeaderPositions(insns) : \A j \in HeaderPositions(insns) : j <= i

\* The flags word the stream assigns.
StreamFlags(insns) ==
    insns[CHOOSE i \in 1 .. Len(insns) : insns[i].member_index = 1].bits

\* C14: for a stream that assigns each of the five header fields once with
\* a recognized source, in any order and with assignments to later fields
\* anywhere among them, from_stack returns the literal it returns for the
\* same assignments in header order, carrying the assigned values; and the
\* scan ends at the last of the five assignments, not before and not after.
C14_OrderIndependent ==
    FromStackCalled =>
        LET flags == StreamFlags(fs.insns)
        IN /\ fs.pc = "returned"
           /\ fs.out = FromStack(LiteralAddr, "AssignStructField", HeaderFive(flags), BlockVarId)
           /\ fs.out.bl.constructed
           /\ fs.out.bl.flags = flags
           /\ fs.out.bl.reserved = 0
           /\ fs.out.bl.invoke = InvokeAddr
           /\ fs.out.bl.descriptor = DescAddr
           /\ fs.locals.bound = HeaderLocals
           /\ fs.locals.scanned = LastHeaderPosition(fs.insns)

\* A stream that assigns descriptor first and isa last, with an assignment
\* to field 5 between them, has been resolved.
C14_Witness ==
    /\ fs.pc = "returned"
    /\ Len(fs.insns) = 6
    /\ fs.insns[1].member_index = 4
    /\ fs.insns[3].member_index = 5
    /\ fs.insns[6].member_index = 0
    /\ fs.locals.scanned = 6

\* The header local an assignment binds in from_stack when its source is a
\* recognized one, "none" for any other assignment.
LocalBoundBy(insn) ==
    IF insn.member_index = 0 /\ insn.src = "Import" /\ insn.name = "__NSConcreteStackBlock"
    THEN "isa"
    ELSE IF insn.member_index = 1 /\ IsConst(insn.src) THEN "flags"
    ELSE IF insn.member_index = 2 THEN "reserved"
    ELSE IF insn.member_index = 3 /\ IsConst(insn.src) THEN "invoke"
    ELSE IF insn.member_index = 4 /\ IsConst(insn.src) THEN "descriptor"
    ELSE "none"

\* from_stack has been called on the stack candidate.
StackScanned ==
    /\ pc \notin {"idle", "start", "rejected"}
    /\ cand.is_stack_block

\* The stream assigns field k, and never from a constant.
NonConstantOnly(insns, k) ==
    /\ \E i \in 1 .. Len(insns) : insns[i].member_index = k
    /\ \A i \in 1 .. Len(insns) : insns[i].member_index = k => ~IsConst(insns[i].src)

\* The stream assigns a structure field to flags at a position the scan
\* gets to: the assignments before it do not bind all five header locals.
FlagsFromFieldScanned(insns) ==
    \E p \in 1 .. Len(insns) :
        /\ insns[p].member_index = 1
        /\ insns[p].src = "StructField"
        /\ ~(HeaderLocals \subseteq {LocalBoundBy(insns[i]) : i \in 1 .. p - 1})

\* No literal exists and the instance has left nothing in the view but the
\* generic type of the variable.
InstanceAbandoned ==
    /\ pc = "failed"
    /\ ~bl.constructed
    /\ ~bd.constructed
    /\ "exception" \in log
    /\ InstanceTypeNames = {}
    /\ data_vars = {}
    /\ comments = {}
    /\ ~stack_var.renamed

C15_InvokeFromVar ==
    /\ StackScanned
    /\ NonConstantOnly(cand.insns, 3)
    /\ exc = Raised("UnboundLocalError", "from_stack")

\* The stream holds a field assignment with an unknown destination shape
\* at a position the scan gets to, and assigns all five header fields of
\* the candidate variable from recognized sources.
UnknownDestinationCase ==
    /\ StackScanned
    /\ cand.insn_kind = "AssignStructField"
    /\ HeaderLocals \subseteq {LocalBoundBy(cand.insns[i]) : i \in 1 .. Len(cand.insns)}
    /\ \E p \in 1 .. Len(cand.insns) :
         /\ YieldDecision(cand.insns[p], BlockVarId) = "raise"
         /\ ~(HeaderLocals \subseteq {LocalBoundBy(cand.insns[i]) : i \in 1 .. p - 1})

\* C16 as stated: the instruction with the unknown destination is skipped
\* and the header assignments after it are collected, so the literal is
\* constructed with the assigned values.  In the code the generator raises
\* NotImplementedError at that instruction, which ends from_stack.
C16_UnknownDestinationSkipped ==
    UnknownDestinationCase =>
        /\ bl.constructed
        /\ bl.invoke = InvokeAddr
        /\ bl.descriptor = DescAddr
        /\ bl.flags = StreamFlags(cand.insns)

\* What the code does: the instance ends with NotImplementedError and no
\* literal.
C16_NotImplemented ==
    UnknownDestinationCase =>
        /\ InstanceAbandoned
        /\ exc = Raised("NotImplementedError", "from_stack")

\* ------------------------------------------------------------------------
\* Reading a sweep in SpecSweepFair

InvokeTypedCase ==
    /\ invoke_fn.exists
    /\ bd.signature_raw # Unset

\* The rung the ladder of the specification takes.
LadderRung ==
    IF invoke_fn.translation = "types" /\ invoke_fn.n_types >= 1 THEN "signature"
    ELSE IF invoke_fn.n_params = 0 THEN "vararg"
    ELSE "surgical"

\* C18 as stated: the invoke function is typed by the translated signature
\* when the translation yields at least one type, else by the variadic
\* type when the function has no parameters, else in place; whatever the
\* translation does, annotate_functions ends without an exception.  In the
\* code a translation that yields no type fails the assert, one that
\* yields a single type fails at types[1], and neither is caught by the
\* except NotImplementedError clause.
C18_InvokeLadder ==
    InvokeTypedCase =>
        /\ pc = "annotated"
        /\ invoke_fn.ladder = LadderRung

\* What the code does: with two types or more, or a translation that
\* raised NotImplementedError, or no signature string, the ladder is the
\* stated one; with no type the instance ends with AssertionError and with
\* one type with IndexError.
C18_CodeLadder ==
    InvokeTypedCase =>
        IF invoke_fn.translation = "types" /\ invoke_fn.n_types = 0
        THEN pc = "failed" /\ exc = Raised("AssertionError", "annotate_functions")
        ELSE IF invoke_fn.translation = "types" /\ invoke_fn.n_types = 1
        THEN pc = "failed" /\ exc = Raised("IndexError", "annotate_functions")
        ELSE pc = "annotated" /\ invoke_fn.ladder = LadderRung

\* ------------------------------------------------------------------------
\* Reading the structure of a byref cell in SpecByref

\* The structure of the cell has been assembled and registered.
ByrefDefined == byref.pc = "defined"

ByrefKind == byref.flags \cap BLOCK_BYREF_LAYOUT_MASK

\* The number of members before the payload: the four header members, and
\* keep and destroy when the flags have the copy-dispose bit.
ByrefFixed == IF BLOCK_BYREF_HAS_COPY_DISPOSE \in byref.flags THEN 6 ELSE 4

\* The members after the header and after keep and destroy.
ByrefTail == SubSeq(byref.struct.members, ByrefFixed + 1, Len(byref.struct.members))

\* The names of the members before the payload.
ByrefFixedNames ==
    [i \in 1 .. ByrefFixed |-> byref.struct.members[i].name.prefix]
        = SubSeq(<<"isa", "forwarding", "flags", "size", "byref_keep", "byref_destroy">>,
                 1, ByrefFixed)

\* The kind and type of each member of a sequence of members.
SlotKinds(members) ==
    [i \in 1 .. Len(members) |-> [prefix |-> members[i].name.prefix,
                                   type |-> members[i].type]]

\* The slots the nested layout of the cell decodes to.
NestedSlots ==
    LET start == StructureBuilderCreate(FALSE)
    IN SlotKinds(AppendLayoutFields(byref.mem, start, byref.layout_src.value,
                                    TRUE, FALSE, <<>>, FALSE).struct.members)

\* The payload interpretations that left a member in the structure.
ByrefInterpretations ==
    {k \in {"layout", "non_object_0", "strong_ptr_0", "weak_ptr_0", "unretained_ptr_0"} :
        \E i \in 1 .. Len(ByrefTail) : ByrefTail[i].name = PlainName(k)}

\* The payload is the one member named name, of type type.
OneMember(name, type) ==
    SlotKinds(ByrefTail) = <<[prefix |-> name, type |-> type]>>

\* The four kinds with a payload of one member, and the exclusion.
SingleMemberKinds ==
    /\ ByrefFixedNames
    /\ Cardinality(ByrefInterpretations) <= 1
    /\ ByrefKind = BLOCK_BYREF_LAYOUT_NON_OBJECT => OneMember("non_object_0", TypeUint64)
    /\ ByrefKind = BLOCK_BYREF_LAYOUT_STRONG => OneMember("strong_ptr_0", TypeId)
    /\ ByrefKind = BLOCK_BYREF_LAYOUT_WEAK => OneMember("weak_ptr_0", TypeId)
    /\ ByrefKind = BLOCK_BYREF_LAYOUT_UNRETAINED => OneMember("unretained_ptr_0", TypeId)

\* C19 as stated: after the header, and after keep and destroy when
\* present, a byref structure has one opaque word for the NonObject kind,
\* one pointer of the kind for Strong, Weak and Unretained, and for
\* Extended the slots decoded from the nested layout and nothing else; no
\* flags value leaves two interpretations in the structure.  In the code
\* the Extended kind first appends a member named layout.
C19_PayloadAsStated ==
    ByrefDefined =>
        /\ SingleMemberKinds
        /\ ByrefKind = BLOCK_BYREF_LAYOUT_EXTENDED => SlotKinds(ByrefTail) = NestedSlots

\* C19, amended: as above, except that for the Extended kind the payload
\* is a member named layout, pointer-wide, followed by the slots decoded
\* from the nested layout (none, one or several).
C19_OnePayload ==
    ByrefDefined =>
        /\ SingleMemberKinds
        /\ ByrefKind = BLOCK_BYREF_LAYOUT_EXTENDED =>
              /\ Len(ByrefTail) >= 1
              /\ ByrefTail[1].name = PlainName("layout")
              /\ ByrefTail[1].type.width = PointerWidth
              /\ SlotKinds(Tail(ByrefTail)) = NestedSlots

\* An Extended cell with keep and destroy whose nested bytecode decodes to
\* two slots or more is assembled.
C19_Witness ==
    /\ ByrefDefined
    /\ ByrefKind = BLOCK_BYREF_LAYOUT_EXTENDED
    /\ BLOCK_BYREF_HAS_COPY_DISPOSE \in byref.flags
    /\ byref.layout_src.value >= CompactLimit
    /\ Len(ByrefTail) >= 3

\* ------------------------------------------------------------------------
\* Member offsets

RECURSIVE WidthBefore(_, _)
\* The sum of the widths of the members before member i.
WidthBefore(struct, i) ==
    IF i = 1 THEN 0
    ELSE WidthBefore(struct, i - 1) + struct.members[i - 1].type.width

DenselyPacked(struct) ==
    \A i \in 1 .. Len(struct.members) : struct.members[i].offset = WidthBefore(struct, i)

C20_LiteralDenselyPacked ==
    LiteralApplied => DenselyPacked(bl.struct_builder)

\* What the code does for the byref cell: every member is at the first
\* multiple of its alignment at or after the end of the member before it.
C20_ByrefAligned ==
    ByrefDefined =>
        \A i \in 1 .. Len(byref.struct.members) :
            LET m == byref.struct.members[i]
                end == IF i = 1 THEN 0
                       ELSE byref.struct.members[i - 1].offset
                            + byref.struct.members[i - 1].type.width
            IN m.offset = AlignUp(end, m.type.align)

\* ------------------------------------------------------------------------
\* The byref_indexes list and the member names in SpecLayout

RECURSIVE IndexesOf(_, _)
\* The indexes, counted from 0 and ascending, of the members among the
\* first n whose name has the byref_ptr_ prefix.
IndexesOf(members, n) ==
    IF n = 0 THEN <<>>
    ELSE IF members[n].name.prefix = "byref_ptr_"
    THEN Append(IndexesOf(members, n - 1), n - 1)
    ELSE IndexesOf(members, n - 1)

\* The call was made with a byref_indexes list.
LayByrefListCase ==
    /\ LayoutCalled
    /\ lay_in.site = "literal"

\* C27: after a decode that was passed a byref_indexes list, the list is
\* the member indexes of the byref slots of the structure, one entry for
\* each slot and in the order the slots were appended; so the member at
\* every recorded index has a name that starts with byref_ptr_.
C27_ByrefIndexes ==
    LayByrefListCase =>
        /\ lay_out.byref_indexes
              = IndexesOf(lay_out.struct.members, Len(lay_out.struct.members))
        /\ \A k \in 1 .. Len(lay_out.byref_indexes) :
              lay_out.struct.members[lay_out.byref_indexes[k] + 1].name.prefix = "byref_ptr_"

\* A stream with two strong pointers before two byref pointers has been
\* decoded for a literal: the indexes recorded are 7 and 8.
C27_Witness ==
    /\ LayByrefListCase
    /\ lay_in.ext
    /\ lay_in.layout = MemBase
    /\ lay_in.mem = <<50, 66, 0>>
    /\ lay_out.byref_indexes = <<7, 8>>

\* The names of the members of a structure are pairwise distinct.
DistinctNames(struct) ==
    \A i \in 1 .. Len(struct.members), j \in 1 .. Len(struct.members) :
        struct.members[i].name = struct.members[j].name => i = j

\* C28 as stated: after every call of append_layout_fields the names of
\* the members of the structure are pairwise distinct.  In the code a
\* NonObjectBytes opcode with operand 0 appends a member of width 0, and
\* the member after it is named by the same width.
C28_DistinctNames ==
    LayoutCalled => DistinctNames(lay_out.struct)

\* The bytes the decoder took slots from hold a NonObjectBytes opcode with
\* operand 0.
LayEmptyRunDecoded ==
    /\ lay_in.ext
    /\ lay_in.layout >= CompactLimit
    /\ LET s == StreamAt(lay_in.mem, lay_in.layout)
       IN \E i \in 1 .. FirstStop(s) - 1 : s[i] = 16 * BLOCK_LAYOUT_NON_OBJECT_BYTES

\* What the code does: the names are pairwise distinct unless a
\* NonObjectBytes opcode with operand 0 was decoded.
C28_DistinctUnlessEmptyRun ==
    (LayoutCalled /\ ~LayEmptyRunDecoded) => DistinctNames(lay_out.struct)

\* ------------------------------------------------------------------------
\* The descriptor member of the registered literal structure in Spec

\* The literal's structure as the registry holds it.
RegisteredLiteral == types[bl.struct_name]

\* annotate_literal has registered the literal's structure and returned.
LiteralRegistered ==
    /\ pc \in {"literal_annotated", "descriptor_annotated", "bytecode_annotated", "annotated"}
    /\ bl.struct_name \in DOMAIN types

\* The type of the member named descriptor of a structure.
DescriptorMemberType(struct) ==
    struct.members[IndexByName(struct, "descriptor") + 1].type

\* annotate_descriptor changes, in the registered literal structure, the
\* type of the member descriptor and nothing else.
DescriptorPatchStep ==
    (pc = "literal_annotated" /\ pc' = "descriptor_annotated") =>
        LET before == types[bl.struct_name]
            after == types'[bl.struct_name]
            k == IndexByName(before, "descriptor") + 1
        IN /\ bl'.struct_name = bl.struct_name
           /\ Len(after.members) = Len(before.members)
           /\ after.width = before.width /\ after.packed = before.packed
           /\ \A i \in 1 .. Len(before.members) :
                IF i = k
                THEN /\ after.members[i].name = before.members[i].name
                     /\ after.members[i].offset = before.members[i].offset
                ELSE after.members[i] = before.members[i]

\* C22: between annotate_literal and annotate_descriptor the descriptor
\* member of the registered literal structure is a pointer to the generic
\* Block_descriptor_1; once annotate_descriptor has returned it is a
\* pointer to the instance's Block_descriptor_<address> structure, which is
\* registered; and the step of annotate_descriptor leaves every other
\* member of the literal structure as it was.
C22_DescriptorLinking ==
    /\ [](LiteralRegistered /\ pc = "literal_annotated" =>
            DescriptorMemberType(RegisteredLiteral)
                = TypePointer(PlainName("Block_descriptor_1")))
    /\ [](LiteralRegistered /\ pc # "literal_annotated" =>
            /\ DescriptorMemberType(RegisteredLiteral)
                  = TypePointer(HexName("Block_descriptor_", bd.address))
            /\ HexName("Block_descriptor_", bd.address) \in DOMAIN types
            /\ types[HexName("Block_descriptor_", bd.address)] = DescriptorStruct(bd))
    /\ [][DescriptorPatchStep]_vars

\* annotate_descriptor has patched a literal structure that has members
\* after its header.
C22_Witness ==
    /\ LiteralRegistered
    /\ pc = "descriptor_annotated"
    /\ Len(RegisteredLiteral.members) > Len(LiteralHeader.members)
    /\ DescriptorMemberType(RegisteredLiteral)
          = TypePointer(HexName("Block_descriptor_", DescAddr))

\* ------------------------------------------------------------------------
\* layout_end at annotate_layout_bytecode in Spec

\* annotate_layout_bytecode is about to run for a descriptor that meets the
\* condition for the data variable of the bytecode.
LayoutVariableCase ==
    /\ pc = "descriptor_annotated"
    /\ HasLayoutBytecode(bd)

\* C25 as stated: whenever the condition for the layout data variable
\* holds at annotate_layout_bytecode, for every descriptor size from 32 on,
\* layout_end has been set by the decoder and is greater than layout.  In
\* the code annotate_literal calls the decoder only for a size above 32.
C25_LayoutEndSet ==
    LayoutVariableCase =>
        /\ bd.layout_end # Unset
        /\ bd.layout_end > bd.layout

\* What the code does: for a size above 32 layout_end is set and greater
\* than layout; for size 32 it is not set.
C25_LayoutEndAboveHeader ==
    LayoutVariableCase =>
        IF imported_variables_size(bd) > 0
        THEN bd.layout_end # Unset /\ bd.layout_end > bd.layout
        ELSE bd.layout_end = Unset

\* What the code does for size 32: annotate_layout_bytecode ends the
\* instance with AttributeError and makes no data variable at layout.
C25_AttributeErrorAtHeaderSize ==
    (bd.constructed /\ HasLayoutBytecode(bd) /\ bd.size = HeaderSize
        /\ (pc \in {"bytecode_annotated", "annotated"}
              \/ (pc = "failed" /\ exc.stage # "annotate_literal"))) =>
        /\ pc = "failed"
        /\ exc = Raised("AttributeError", "annotate_layout_bytecode")
        /\ \A v \in data_vars : v.address # bd.layout

\* ------------------------------------------------------------------------
\* Literals without HAS_SIGNATURE in Spec

\* The descriptor of a literal whose flags lack HAS_SIGNATURE has been
\* constructed.
NoSignatureCase ==
    /\ bd.constructed
    /\ bd.size >= HeaderSize
    /\ BLOCK_HAS_SIGNATURE \notin bl.flags

\* C26 as stated: for a literal without HAS_SIGNATURE no step of the
\* pipeline fails, and an invoke function the view has is typed by the
\* variadic rung or in place.  In the code annotate_literal reads bd.layout
\* for a size above 32 and annotate_functions reads bd.signature_raw for
\* an existing invoke function, and neither attribute exists.
C26_NoSignatureRuns ==
    NoSignatureCase =>
        /\ pc # "failed"
        /\ (pc = "annotated" /\ invoke_fn.exists) =>
              invoke_fn.ladder \in {"vararg", "surgical"}

\* What the code does: the attributes stay unset; the instance fails in
\* annotate_literal for a size above 32 and in annotate_functions when the
\* view has the invoke function, and it reaches the end only for size 32
\* without an invoke function.
C26_NoSignatureFails ==
    NoSignatureCase =>
        /\ bd.layout = Unset /\ bd.signature_raw = Unset
        /\ pc = "failed" =>
              \/ exc = Raised("AttributeError", "annotate_literal")
                    /\ imported_variables_size(bd) > 0
              \/ exc = Raised("AttributeError", "annotate_functions")
                    /\ invoke_fn.exists
              \/ exc = Raised("RuntimeError", "annotate_literal")
        /\ pc = "annotated" => imported_variables_size(bd) = 0 /\ ~invoke_fn.exists

\* ------------------------------------------------------------------------
\* The registry under two tasks in SpecTasks

\* Task t has passed the check of _get_custom_type for the source and has
\* not yet defined the types of the source.
PassedCheck(t, source) ==
    /\ tasks.task[t].step \in {"parse", "define_types"}
    /\ RegistryCalls[tasks.task[t].call].source = source

\* The names of the two sources.
BaseNames == {PlainName(n) : n \in ObjcTypeNames \cup LibclosureTypeNames}

\* C21 as stated: the tasks' writes to the registry are serialized; the
\* two tasks are never both between the check of _get_custom_type and the
\* definition of the types of the same source, and no type of the two
\* sources is defined more than once.  The code takes no lock: the check
\* at lines 158-160 and the definition at line 162 are separate calls.
C21_RegistrySerialized ==
    /\ \A source \in {"objc", "libclosure"} :
         ~(PassedCheck(1, source) /\ PassedCheck(2, source))
    /\ \A n \in DOMAIN tasks.defs : n \in BaseNames => tasks.defs[n] <= 1

\* What the code does: a type of the sources is defined at most once by
\* each task, and when both tasks are done the registry holds every type
\* of the two sources and each task's literal structure.
C21_NothingLost ==
    /\ \A n \in DOMAIN tasks.defs : n \in BaseNames => tasks.defs[n] <= 2
    /\ (\A t \in TaskIds : tasks.task[t].step = "done") =>
         /\ BaseNames \subseteq DOMAIN tasks.defs
         /\ \A t \in TaskIds :
              HexName("Block_literal_", tasks.task[t].address) \in DOMAIN tasks.defs

\* ------------------------------------------------------------------------
\* Reading the result of the byref stage in SpecByrefStage

\* The second try block has been left, by its end or by an exception.
StageEnded == stage.pc \in {"done", "failed"}

\* The literal's structure on entry to the stage.
StageEntryLit == StageLiteral(stage.layout).lit

\* The positions in the list of linked slots that are for member i.
LinkedAt(i) ==
    {k \in 1 .. Len(stage.out.linked) : stage.out.linked[k].member_index = i}

\* The cell member i was linked to last.
LastLinkedCell(i) ==
    stage.out.linked[CHOOSE k \in LinkedAt(i) : \A j \in LinkedAt(i) : j <= k].cell

ByrefStructName(c) == HexName("Block_byref_", ByrefCell(c).address)

\* A source the stage can resolve whatever came before it: the address of
\* a declared variable whose flags and size assignments are found.
ResolvableSrc(src) ==
    /\ src.kind = "AddressOfVar"
    /\ ByrefCell(src.cell).declared
    /\ ByrefCell(src.cell).flags_found
    /\ ByrefCell(src.cell).size_found

\* C23: when the stage has ended, every member of the literal structure
\* that was linked is, under its old name and at its old offset, a pointer
\* to the Block_byref_<address> structure of the variable it was linked to
\* last; that structure is registered and its member 1, forwarding, is a
\* pointer to the same structure; every other member, the byref slots that
\* were not linked among them, is as annotate_literal left it; the
\* registry holds the literal structure so patched; and when the stage
\* ends without an exception every assignment of the address of a
\* resolvable variable to a byref slot has been linked.
C23_ByrefLinked ==
    StageEnded =>
        LET lit == stage.out.lit
            was == StageEntryLit
        IN /\ Len(lit.members) = Len(was.members)
           /\ lit.width = was.width
           /\ \A i \in 0 .. Len(was.members) - 1 :
                IF LinkedAt(i) # {}
                THEN /\ was.members[i + 1].name.prefix = "byref_ptr_"
                     /\ lit.members[i + 1].name = was.members[i + 1].name
                     /\ lit.members[i + 1].offset = was.members[i + 1].offset
                     /\ lit.members[i + 1].type = TypePointer(ByrefStructName(LastLinkedCell(i)))
                ELSE lit.members[i + 1] = was.members[i + 1]
           /\ \A k \in 1 .. Len(stage.out.linked) :
                LET n == ByrefStructName(stage.out.linked[k].cell)
                IN /\ n \in DOMAIN stage.out.types
                   /\ stage.out.types[n].members[2].name = PlainName("forwarding")
                   /\ stage.out.types[n].members[2].type = TypePointer(n)
           /\ stage.out.types[HexName("Block_literal_", LiteralAddr)] = lit
           /\ stage.pc = "done" =>
                \A j \in 1 .. Len(stage.insns) :
                    ResolvableSrc(stage.insns[j].src) =>
                        \E k \in 1 .. Len(stage.out.linked) :
                            stage.out.linked[k] = [member_index |-> stage.insns[j].member_index,
                                                   cell |-> stage.insns[j].src.cell]

\* Both byref slots of a literal have been linked, the second slot first,
\* to the extended cell and to the strong cell.
C23_Witness ==
    /\ stage.pc = "done"
    /\ stage.out.linked = <<[member_index |-> 7, cell |-> 2], [member_index |-> 6, cell |-> 1]>>
    /\ stage.out.lit.members[7].type = TypePointer(HexName("Block_byref_", ByrefAddr))
    /\ stage.out.lit.members[8].type = TypePointer(HexName("Block_byref_", ByrefAddr + 16))

\* The stage has ended for a literal with byref slots whose instruction is
\* a declaration.
StageRanCase ==
    /\ StageEnded
    /\ stage.insn_kind = "VarDeclare"
    /\ Len(stage.out.byref_indexes) > 0

\* The byref slots assigned the address of a resolvable variable.
ResolvableSlots ==
    {stage.insns[j].member_index : j \in {i \in 1 .. Len(stage.insns) :
                                            ResolvableSrc(stage.insns[i].src)}}

\* The byref slots assigned the address of a variable the function
\* declares; one whose flags assignment is not found is processed with
\* the flags of the cell before it, when there is one.
DeclaredSlots ==
    {stage.insns[j].member_index : j \in {i \in 1 .. Len(stage.insns) :
                                            /\ stage.insns[i].src.kind = "AddressOfVar"
                                            /\ ByrefCell(stage.insns[i].src.cell).declared}}

\* Every slot of ResolvableSlots is a pointer to a byref structure, and
\* every member that was not assigned the address of a declared variable
\* is as it was.
ResolvableSlotsLinked ==
    \A i \in 0 .. Len(StageEntryLit.members) - 1 :
        /\ i \in ResolvableSlots =>
              stage.out.lit.members[i + 1].type.to.prefix = "Block_byref_"
        /\ i \notin DeclaredSlots =>
              stage.out.lit.members[i + 1] = StageEntryLit.members[i + 1]

\* C24 as stated: whatever the sources of the assignments to the byref
\* slots (other shapes, skipped shapes, a slot assigned twice or never),
\* the stage ends without an exception, the slots that are resolvable are
\* linked and the others are left.  In the code the sources collected are
\* counted against the slots (line 760) before any slot is processed.
C24_UnresolvableLeft ==
    StageRanCase =>
        /\ stage.pc = "done"
        /\ ResolvableSlotsLinked

\* What the code does: the stage ends with AssertionError, and links
\* nothing, unless the number of assignments to byref slots of a known
\* shape is the number of byref slots; when it is, the stage ends without
\* an exception.
C24_CountedSlots ==
    StageRanCase =>
        LET byref_indexes_set ==
                {stage.out.byref_indexes[i] : i \in 1 .. Len(stage.out.byref_indexes)}
            counted == Len(ByrefSrcs(stage.insns, byref_indexes_set))
        IN IF counted = Len(stage.out.byref_indexes)
           THEN stage.pc = "done"
           ELSE /\ stage.pc = "failed"
                /\ stage.out.exc = "AssertionError"
                /\ stage.out.linked = <<>>
                /\ stage.out.lit = StageEntryLit

\* What the code does when every byref slot is assigned once, by a shape
\* the stage knows: the resolvable slots are linked and the others left.
C24_OnceEachLinked ==
    (/\ StageRanCase
     /\ (\A j \in 1 .. Len(stage.insns) : stage.insns[j].src.kind # "Unrecognized")
     /\ (\A i \in 1 .. Len(stage.out.byref_indexes) :
            Cardinality({n \in 1 .. Len(stage.insns) :
                            stage.insns[n].member_index = stage.out.byref_indexes[i]}) = 1)) =>
        /\ stage.pc = "done"
        /\ ResolvableSlotsLinked

====
